---- MODULE Spec2Model ----
(***************************************************************************)
(* Verification model of flatland-rl:                                      *)
(*   - RailEnv (flatland/envs/rail_env.py): reset() and the per-tick       *)
(*     multi-agent state machine step();                                   *)
(*   - complex_rail_generator (flatland/envs/rail_generators.py): the      *)
(*     two retry loops of the point-connector generator.                   *)
(*                                                                         *)
(* Numbers.  Speeds and progress fractions are multiples of 1/Den and are  *)
(* stored as their numerators (speed 1.0 is Den, speed 0.5 is Den \div 2); *)
(* these values are exact in binary floating point, so the integer         *)
(* arithmetic below is the arithmetic the program performs.  Rewards are   *)
(* stored multiplied by Den for the same reason.                           *)
(***************************************************************************)
EXTENDS Integers, Sequences, FiniteSets, TLC

VARIABLES
    scenario,               \* the arguments RailEnv was constructed with (an index of Scenarios)
    agents,                 \* RailEnv.agents : handle -> EnvAgent
    dones,                  \* RailEnv.dones[handle]
    dones_all,              \* RailEnv.dones["__all__"]
    rewards_dict,           \* RailEnv.rewards_dict (times Den)
    elapsed_steps,          \* RailEnv._elapsed_steps
    max_episode_steps,      \* RailEnv._max_episode_steps (None or a number)
    num_resets,             \* RailEnv.num_resets
    pc,                     \* where the caller is: "idle" between calls, "loop" inside step()'s agent loop
    i_agent,                \* step(): the loop variable i_agent
    action_in,              \* step(): action_dict_'s entry read by the latest loop iteration
    only_forward,           \* history: every entry read since the latest reset was MOVE_FORWARD
    gen                     \* locals of the generator or utility call followed

envvars == <<scenario, agents, dones, dones_all, rewards_dict, elapsed_steps,
             max_episode_steps, num_resets, pc, i_agent, action_in, only_forward>>
vars == <<scenario, agents, dones, dones_all, rewards_dict, elapsed_steps,
          max_episode_steps, num_resets, pc, i_agent, action_in, only_forward, gen>>

-----------------------------------------------------------------------------
(* Bounds of the model *)

\* step() is not called more than MaxTicks times between two resets
MaxTicks == 3
\* reset() is not called more than MaxResets times after construction
MaxResets == 2
\* step() is not called more than MaxTicksAfterReset times in an episode
\* started by reset()
MaxTicksAfterReset == 1
\* largest value int(np.random.exponential(rate)) takes in the model
MaxNextMalfunction == 1
\* the tick limit of the environments built with max_episode_steps
EpisodeLimit == 2
\* largest nr_start_goal and nr_extra handed to complex_rail_generator
MaxPairs == 2
\* largest coordinate of the vectors given to Vec2dOperations
MaxCoord == 2
\* the height, and the largest width, of the grids handed to complex_rail_generator
MaxSide == 2
\* the height, and the largest width, of the grids on which the pair
\* placement of complex_rail_generator is followed cell by cell
GridSide == 3
\* connect_rail calls without a path that the pair placement is followed for
MaxFailed == 1

\* widths of the grids the template-fill generator is called with (the
\* height is 3: one interior row)
MaxWidth == 4
\* sparse_rail_generator: cities asked for, stations per city, agents asked for
MaxCities == 2
\* largest max_inter_city_rails the sparse generator is made with
MaxRails == 4
\* largest number of city cells handed to the repair pass
MaxCityCells == 3
MaxStations == 2
MaxAgents == 3
\* largest seed and reset count of a generator call, and the draws followed
\* after a seeding
MaxSeed == 2
MaxDraws == 3
\* the slowest agent whose progress is followed as a double has speed 1/MaxK
MaxK == 13
\* denominator of speeds, progress fractions and rewards: the slowest agent
\* has speed 1/Den and needs Den ticks per cell
Den == 2

-----------------------------------------------------------------------------
(* Program constants *)

\* RailEnvActions
DO_NOTHING == 0
MOVE_LEFT == 1
MOVE_FORWARD == 2
MOVE_RIGHT == 3
STOP_MOVING == 4
RailEnvActions == {DO_NOTHING, MOVE_LEFT, MOVE_FORWARD, MOVE_RIGHT, STOP_MOVING}


\* locals of step()
alpha == 1
beta == 1
invalid_action_penalty == 0
step_penalty == (-1) * alpha
global_reward == 1 * beta
stop_penalty == 0
start_penalty == 0

\* max_episode_steps=None
None == -1
\* EnvAgent.old_position / old_direction before the first step (None)
NoPosition == <<None, None>>
NoDirection == None

\* position_fraction <= epsilon, epsilon = 0.01 = 1/100
AtCellEntry(frac) == frac * 100 <= Den * 1

-----------------------------------------------------------------------------
(* Transition codes (flatland.core.transition_map, grid4_utils) *)

\* 2^n for the shifts below
Pow2(n) ==
    <<1, 2, 4, 8, 16, 32, 64, 128, 256, 512, 1024, 2048, 4096, 8192, 16384, 32768>>[n + 1]

\* the 4 exit bits (N, E, S, W) of a cell for an agent heading `dir`
get_transitions(rl, pos, dir) ==
    LET group == (rl[pos] \div Pow2(4 * (3 - dir))) % 16
    IN  [k \in 0..3 |-> (group \div Pow2(3 - k)) % 2]

get_transition(rl, pos, dir, out) == get_transitions(rl, pos, dir)[out] = 1

get_full_transitions(rl, pos) == rl[pos]

get_new_position(pos, dir) ==
    CASE dir = 0 -> <<pos[1] - 1, pos[2]>>
      [] dir = 1 -> <<pos[1], pos[2] + 1>>
      [] dir = 2 -> <<pos[1] + 1, pos[2]>>
      [] dir = 3 -> <<pos[1], pos[2] - 1>>

count_nonzero(t) == Cardinality({k \in DOMAIN t : t[k] # 0})

\* np.argmax: the first index holding the largest value
argmax(t) ==
    IF \E k \in DOMAIN t : t[k] # 0
    THEN CHOOSE k \in DOMAIN t : t[k] # 0 /\ \A j \in DOMAIN t : t[j] # 0 => k <= j
    ELSE 0

\* transition codes used by the rails below
EmptyCell == 0
StraightEW == 1025
StraightNS == 32800
DeadEndFacingS == 128
SwitchWtoS == 17411

-----------------------------------------------------------------------------
(* Rails and schedules the environments are built with *)

Cells(h, w) == (0..(h - 1)) \X (0..(w - 1))

GridOf(h, w, tracks) ==
    [p \in Cells(h, w) |-> IF p \in DOMAIN tracks THEN tracks[p] ELSE EmptyCell]

\* a 7x7 grid holding a single straight 3-cell track
LineRail ==
    GridOf(7, 7, (<<3, 2>> :> StraightEW) @@ (<<3, 3>> :> StraightEW) @@ (<<3, 4>> :> StraightEW))

\* a 4x5 grid: a line running off the grid at both ends, a branch going
\* south from a switch into a dead end, and a piece of track north of the
\* switch that is not connected to it
BranchRail ==
    GridOf(4, 5, (<<0, 2>> :> StraightEW) @@
                 (<<1, 0>> :> StraightEW) @@ (<<1, 1>> :> StraightEW) @@
                 (<<1, 2>> :> SwitchWtoS) @@ (<<1, 3>> :> StraightEW) @@
                 (<<1, 4>> :> StraightEW) @@ (<<2, 2>> :> StraightNS) @@
                 (<<3, 2>> :> DeadEndFacingS))

Static(pos, dir, tgt, spd) ==
    [position |-> pos, direction |-> dir, target |-> tgt, speed |-> spd]

NoMalfunctions ==
    [prop_malfunction |-> FALSE, malfunction_rate |-> 0, min_duration |-> 0, max_duration |-> 0]

SomeMalfunctions ==
    [prop_malfunction |-> TRUE, malfunction_rate |-> 1, min_duration |-> 0, max_duration |-> 1]

\* (height, width, rail, schedule, stochastic_data, max_episode_steps) of each
\* environment:
\*  1  one agent two cells from its target on the straight track;
\*  2  three agents of speed 1 converging on the switch cell <<1, 2>>;
\*  3  malfunctions; agent 0 (speed 1/Den) starts on its target at the east end;
\*  4  agent 0 (speed 1/Den) follows agent 1, which has the higher handle;
\*  5  one agent of speed 1/Den starting on the switch, heading west;
\*  6  two agents of speed 1 facing each other, one of them on the switch
Scenarios ==
    << [height |-> 7, width |-> 7, rail |-> LineRail,
        schedule |-> (0 :> Static(<<3, 2>>, 1, <<3, 4>>, Den)),
        stochastic |-> NoMalfunctions, limits |-> {None, EpisodeLimit}],
       [height |-> 4, width |-> 5, rail |-> BranchRail,
        schedule |-> (0 :> Static(<<1, 2>>, 1, <<1, 4>>, Den)) @@
                     (1 :> Static(<<2, 2>>, 0, <<1, 3>>, Den)) @@
                     (2 :> Static(<<1, 1>>, 1, <<1, 2>>, Den)),
        stochastic |-> NoMalfunctions, limits |-> {None}],
       [height |-> 4, width |-> 5, rail |-> BranchRail,
        schedule |-> (0 :> Static(<<1, 4>>, 1, <<1, 4>>, 1)) @@
                     (1 :> Static(<<1, 2>>, 3, <<1, 0>>, Den)),
        stochastic |-> SomeMalfunctions, limits |-> {None, EpisodeLimit}],
       [height |-> 4, width |-> 5, rail |-> BranchRail,
        schedule |-> (0 :> Static(<<1, 3>>, 3, <<1, 1>>, 1)) @@
                     (1 :> Static(<<1, 2>>, 3, <<3, 2>>, Den)),
        stochastic |-> NoMalfunctions, limits |-> {None}],
       [height |-> 4, width |-> 5, rail |-> BranchRail,
        schedule |-> (0 :> Static(<<1, 2>>, 3, <<1, 0>>, 1)),
        stochastic |-> NoMalfunctions, limits |-> {None}],
       [height |-> 4, width |-> 5, rail |-> BranchRail,
        schedule |-> (0 :> Static(<<1, 1>>, 1, <<1, 4>>, Den)) @@
                     (1 :> Static(<<1, 2>>, 3, <<1, 0>>, Den)),
        stochastic |-> NoMalfunctions, limits |-> {None}] >>

\* RailEnv.rail.grid, RailEnv.height, RailEnv.width, RailEnv.agents_static and
\* the malfunction parameters: fixed by the constructor's arguments
rail == Scenarios[scenario].rail
height == Scenarios[scenario].height
width == Scenarios[scenario].width
agents_static == Scenarios[scenario].schedule
stochastic == Scenarios[scenario].stochastic

-----------------------------------------------------------------------------
(* EnvAgent *)

\* EnvAgent.from_static
from_static(st) ==
    [position |-> st.position, direction |-> st.direction, target |-> st.target,
     moving |-> FALSE, speed |-> st.speed, position_fraction |-> 0,
     transition_action_on_cellexit |-> DO_NOTHING,
     malfunction |-> 0, malfunction_rate |-> 0, next_malfunction |-> 0,
     nr_malfunctions |-> 0,
     old_position |-> NoPosition, old_direction |-> NoDirection]

Handles == DOMAIN agents

\* _agent_malfunction: "Decrease counter for next event"
decrease_counter(a) ==
    IF a.malfunction_rate > 0
    THEN [a EXCEPT !.next_malfunction = @ - 1]
    ELSE a

\* faulty variant of malfunction_due: a broken agent can break again
malfunction_due_while_broken(a) ==
    a.malfunction_rate > 0 /\ a.next_malfunction <= 0

\* _agent_malfunction: the agent has a positive rate, is not broken and its
\* counter has come to zero
malfunction_due(a) ==
    a.malfunction_rate > 0 /\ 0 >= a.malfunction /\ a.next_malfunction <= 0

\* the values the random draws of one _agent_malfunction call can take
\* (nothing is drawn when no malfunction is due)
Draws(sto, a) ==
    IF malfunction_due(decrease_counter(a))
    THEN [next_breakdown : 0..MaxNextMalfunction,
          num_broken_steps : (sto.min_duration + 1)..(sto.max_duration + 1)]
    ELSE {[next_breakdown |-> 0, num_broken_steps |-> 0]}

\* RailEnv._agent_malfunction
agent_malfunction(a, draw) ==
    LET a1 == decrease_counter(a)
    IN  IF malfunction_due(a1)
        THEN [a1 EXCEPT !.nr_malfunctions = @ + 1,
                        !.next_malfunction = draw.next_breakdown,
                        !.malfunction = draw.num_broken_steps]
        ELSE a1

-----------------------------------------------------------------------------
(* RailEnv.check_action and RailEnv._check_action_on_agent *)

\* faulty variant of check_action: MOVE_FORWARD keeps the heading instead of
\* taking the only available transition
check_action_unforced(rl, a, action) ==
    LET possible_transitions == get_transitions(rl, a.position, a.direction)
        num_transitions == count_nonzero(possible_transitions)
        turned == CASE action = MOVE_LEFT -> (a.direction - 1) % 4
                    [] action = MOVE_RIGHT -> (a.direction + 1) % 4
                    [] OTHER -> a.direction % 4
    IN  IF action \in {MOVE_LEFT, MOVE_RIGHT}
        THEN [new_direction |-> turned,
              checked |-> num_transitions <= 1, transition_valid |-> FALSE]
        ELSE [new_direction |-> turned, checked |-> FALSE, transition_valid |-> FALSE]

check_action(rl, a, action) ==
    LET possible_transitions == get_transitions(rl, a.position, a.direction)
        num_transitions == count_nonzero(possible_transitions)
        turned == CASE action = MOVE_LEFT -> (a.direction - 1) % 4
                    [] action = MOVE_RIGHT -> (a.direction + 1) % 4
                    [] OTHER -> a.direction % 4
    IN  IF action \in {MOVE_LEFT, MOVE_RIGHT}
        THEN [new_direction |-> turned,
              checked |-> num_transitions <= 1, transition_valid |-> FALSE]
        ELSE IF action = MOVE_FORWARD /\ num_transitions = 1
        THEN [new_direction |-> argmax(possible_transitions),
              checked |-> TRUE, transition_valid |-> TRUE]
        ELSE [new_direction |-> turned, checked |-> FALSE, transition_valid |-> FALSE]

\* faulty variant of cell_free: reads the position each agent had when it was
\* last processed, not the position it has now
cell_free_stale(ags, new_position) ==
    ~ \E h \in DOMAIN ags :
        (IF ags[h].old_position # NoPosition
         THEN ags[h].old_position ELSE ags[h].position) = new_position

\* faulty variant of cell_free: a cell whose occupant has finished crossing
\* it counts as free
cell_free_leaving(ags, new_position) ==
    ~ \E h \in DOMAIN ags :
        ags[h].position = new_position /\ ags[h].position_fraction < Den

\* cell_free: no agent is currently in new_position
cell_free(ags, new_position) ==
    ~ \E h \in DOMAIN ags : ags[h].position = new_position

new_cell_valid(rl, h, w, new_position) ==
    /\ new_position[1] >= 0 /\ new_position[1] <= h - 1
    /\ new_position[2] >= 0 /\ new_position[2] <= w - 1
    /\ get_full_transitions(rl, new_position) > 0

\* faulty variant of check_action_on_agent: every transition counts as legal
check_action_on_agent_unchecked(rl, h, w, ags, action, a) ==
    LET ca == check_action(rl, a, action)
        new_position == get_new_position(a.position, ca.new_direction)
    IN  [cell_free |-> cell_free(ags, new_position),
         new_cell_valid |-> new_cell_valid(rl, h, w, new_position),
         new_direction |-> ca.new_direction,
         new_position |-> new_position,
         transition_valid |-> TRUE]

check_action_on_agent(rl, h, w, ags, action, a) ==
    LET ca == check_action(rl, a, action)
        new_position == get_new_position(a.position, ca.new_direction)
    IN  [cell_free |-> cell_free(ags, new_position),
         new_cell_valid |-> new_cell_valid(rl, h, w, new_position),
         new_direction |-> ca.new_direction,
         new_position |-> new_position,
         transition_valid |->
             IF ca.checked THEN ca.transition_valid
             ELSE get_transition(rl, a.position, a.direction, ca.new_direction)]

-----------------------------------------------------------------------------
(* RailEnv.step: one iteration of the agent loop *)

\* action_dict_'s entries: any integer the caller likes, or no entry at all
ActionValues == {-1, 0, 1, 2, 3, 4, 5, 6}
ActionEntries ==
    [present : {TRUE}, value : ActionValues] \cup {[present |-> FALSE, value |-> DO_NOTHING]}

\* "No action has been supplied for this agent"
supplied_action(entry) == IF entry.present THEN entry.value ELSE DO_NOTHING

\* the range check on the submitted action
illegal_action(action) == action < 0 \/ action > Cardinality(RailEnvActions)

\* faulty variant of can_make_action: an action is resolved in every tick
can_make_action_midcell(a) == TRUE

\* "If the agent can make an action": it is at a cell entry
can_make_action(a) == AtCellEntry(a.position_fraction)

\* faulty variant of resolve_action: an invalid turn is not retried as
\* MOVE_FORWARD
resolve_action_no_retry(rl, h, w, ags, a, action) ==
    IF AtCellEntry(a.position_fraction) /\ action # DO_NOTHING /\ action # STOP_MOVING
    THEN LET r1 == check_action_on_agent(rl, h, w, ags, action, a)
         IN  IF r1.new_cell_valid /\ r1.transition_valid
             THEN [agent |-> [a EXCEPT !.transition_action_on_cellexit = action],
                   action_selected |-> TRUE, goes_on |-> TRUE]
             ELSE [agent |-> [a EXCEPT !.moving = FALSE],
                   action_selected |-> FALSE, goes_on |-> FALSE]
    ELSE [agent |-> a, action_selected |-> FALSE, goes_on |-> TRUE]

\* "Now perform a movement": the action is resolved at a cell entry.
\* Gives the agent, whether an action was selected and whether the
\* iteration goes on (FALSE: the invalid-action branch was taken).
resolve_action(rl, h, w, ags, a, action) ==
    IF can_make_action(a) /\ action # DO_NOTHING /\ action # STOP_MOVING
    THEN LET r1 == check_action_on_agent(rl, h, w, ags, action, a)
         IN  IF r1.new_cell_valid /\ r1.transition_valid
             THEN [agent |-> [a EXCEPT !.transition_action_on_cellexit = action],
                   action_selected |-> TRUE, goes_on |-> TRUE]
             ELSE IF (action = MOVE_LEFT \/ action = MOVE_RIGHT) /\ a.moving
             THEN LET r2 == check_action_on_agent(rl, h, w, ags, MOVE_FORWARD, a)
                  IN  IF r2.new_cell_valid /\ r2.transition_valid
                      THEN [agent |-> [a EXCEPT !.transition_action_on_cellexit = MOVE_FORWARD],
                            action_selected |-> TRUE, goes_on |-> TRUE]
                      ELSE [agent |-> [a EXCEPT !.moving = FALSE],
                            action_selected |-> FALSE, goes_on |-> FALSE]
             ELSE [agent |-> [a EXCEPT !.moving = FALSE],
                   action_selected |-> FALSE, goes_on |-> FALSE]
    ELSE [agent |-> a, action_selected |-> FALSE, goes_on |-> TRUE]

\* faulty variant of advance: a freshly selected action does not start the
\* traversal of the cell
advance_in_cell_only(a, action_selected) ==
    IF a.moving /\ a.position_fraction > 0
    THEN [a EXCEPT !.position_fraction = @ + a.speed]
    ELSE a

\* faulty variant of incremented: the fraction is clamped at 1.0
incremented_clamped(fraction, speed) ==
    IF fraction + speed > Den THEN Den ELSE fraction + speed

\* position_fraction += speed
incremented(fraction, speed) == fraction + speed

\* the progress fraction advances by the speed
advance(a, action_selected) ==
    IF a.moving /\ (action_selected \/ a.position_fraction > 0)
    THEN [a EXCEPT !.position_fraction = incremented(@, a.speed)]
    ELSE a

\* faulty variant of commit: the occupancy of the new cell is not looked at
commit_unchecked(rl, h, w, ags, a) ==
    IF a.position_fraction >= Den
    THEN LET r == check_action_on_agent(rl, h, w, ags, a.transition_action_on_cellexit, a)
         IN  IF r.new_cell_valid /\ r.transition_valid
             THEN [a EXCEPT !.position = r.new_position,
                            !.direction = r.new_direction,
                            !.position_fraction = 0]
             ELSE a
    ELSE a

\* faulty variant of refused: the progress made in the cell is given up
refused_and_reset(a) == [a EXCEPT !.position_fraction = 0]

\* the transition cannot be performed: the agent is left as it is (the
\* else branch that would stop it is commented out)
refused(a) == a

\* the stored transition is performed once the fraction has reached 1.0
commit(rl, h, w, ags, a) ==
    IF a.position_fraction >= Den
    THEN LET r == check_action_on_agent(rl, h, w, ags, a.transition_action_on_cellexit, a)
         IN  IF r.new_cell_valid /\ r.transition_valid /\ r.cell_free
             THEN [a EXCEPT !.position = r.new_position,
                            !.direction = r.new_direction,
                            !.position_fraction = 0]
             ELSE refused(a)
    ELSE a

\* the action the iteration works with, after the "keep moving" rule
effective_action(a, action) ==
    IF action = DO_NOTHING /\ a.moving THEN MOVE_FORWARD ELSE action

\* faulty variant of apply_stop_start: STOP_MOVING halts the agent anywhere
\* in the cell
apply_stop_start_anywhere(a, action) ==
    LET a1 == IF action = STOP_MOVING /\ a.moving
              THEN [a EXCEPT !.moving = FALSE] ELSE a
    IN  IF ~ a1.moving /\ ~ (action = DO_NOTHING \/ action = STOP_MOVING)
        THEN [a1 EXCEPT !.moving = TRUE] ELSE a1

\* STOP_MOVING halts at a cell entry; a directional action starts a stopped agent
apply_stop_start(a, action) ==
    LET a1 == IF action = STOP_MOVING /\ a.moving /\ AtCellEntry(a.position_fraction)
              THEN [a EXCEPT !.moving = FALSE] ELSE a
    IN  IF ~ a1.moving /\ ~ (action = DO_NOTHING \/ action = STOP_MOVING)
        THEN [a1 EXCEPT !.moving = TRUE] ELSE a1

\* faulty variant of stay_broken: the broken agent is not stopped
stay_broken_moving(a) == [a EXCEPT !.malfunction = @ - 1]

\* "Broken agents are stopped": a tick of a malfunction that is not its last
stay_broken(a) == [a EXCEPT !.malfunction = @ - 1, !.moving = FALSE]

\* "Last step of malfunction --> Agent starts moving again after getting fixed"
resume_after_repair(a) == [a EXCEPT !.malfunction = @ - 1, !.moving = TRUE]

\* faulty variant of already_done: done agents are processed like the others
already_done_ignored(dns, i) == FALSE

\* "this agent has already completed...": the rest of the iteration is skipped
already_done(dns, i) == dns[i]

\* the body of "for i_agent in range(self.get_num_agents())" for agent i
iteration(rl, h, w, ags, dns, rews, i, entry, draw) ==
    LET a0 == [ags[i] EXCEPT !.old_direction = ags[i].direction,
                             !.old_position = ags[i].position]
        a1 == agent_malfunction(a0, draw)
        out(a, d, r) == [agents |-> [ags EXCEPT ![i] = a],
                         dones |-> [dns EXCEPT ![i] = d],
                         rewards |-> [rews EXCEPT ![i] = r]]
    IN  IF already_done(dns, i)
        THEN out(a1, dns[i], rews[i])
        ELSE IF a1.malfunction > 0 /\ ~ (a1.malfunction < 2)
        THEN out(stay_broken(a1), dns[i], rews[i] + step_penalty * a1.speed)
        ELSE LET broken == a1.malfunction > 0
                 a2 == IF broken THEN resume_after_repair(a1) ELSE a1
                 act0 == IF broken THEN DO_NOTHING ELSE supplied_action(entry)
                 act1 == IF illegal_action(act0) THEN DO_NOTHING ELSE act0
                 action == effective_action(a2, act1)
                 rew1 == rews[i]
                         + (IF action = STOP_MOVING /\ a2.moving
                               /\ AtCellEntry(a2.position_fraction)
                            THEN stop_penalty * Den ELSE 0)
                 a3 == apply_stop_start(a2, action)
                 rew2 == rew1 + (IF a3.moving /\ ~ a2.moving /\ action # STOP_MOVING
                                 THEN start_penalty * Den ELSE 0)
                 res == resolve_action(rl, h, w, [ags EXCEPT ![i] = a3], a3, action)
             IN  IF ~ res.goes_on
                 THEN out(res.agent, dns[i],
                          rew2 + invalid_action_penalty * Den
                               + step_penalty * a3.speed + stop_penalty * Den)
                 ELSE LET a4 == advance(res.agent, res.action_selected)
                          a5 == commit(rl, h, w, [ags EXCEPT ![i] = a4], a4)
                      IN  IF a5.position = a5.target
                          THEN out([a5 EXCEPT !.moving = FALSE], TRUE, rew2)
                          ELSE out(a5, dns[i], rew2 + step_penalty * a5.speed)

-----------------------------------------------------------------------------
(* RailEnv: construction, reset() and step() *)

\* reset(): one agent rebuilt from agents_static, before its
\* _agent_malfunction call
reset_agent(st, sto, has_rate) ==
    LET a == from_static(st)
        a1 == IF has_rate
              THEN [a EXCEPT !.malfunction_rate = sto.malfunction_rate]
              ELSE a
    IN  [a1 EXCEPT !.malfunction = 0]

\* what reset() draws for one agent: whether it receives the malfunction
\* rate, and the draws of its first _agent_malfunction call
ResetDraws(st, sto) ==
    UNION { [has_rate : {hr}, draw : Draws(sto, reset_agent(st, sto, hr))] :
            hr \in IF sto.prop_malfunction THEN BOOLEAN ELSE {FALSE} }

AllResetDraws(statics, sto) ==
    { rd \in [DOMAIN statics -> UNION { ResetDraws(statics[hd], sto) : hd \in DOMAIN statics }] :
        \A hd \in DOMAIN statics : rd[hd] \in ResetDraws(statics[hd], sto) }

\* reset(): the agents rebuilt from agents_static, then the malfunction set-up
reset_agents(statics, sto, rd) ==
    [hd \in DOMAIN statics |->
        agent_malfunction(reset_agent(statics[hd], sto, rd[hd].has_rate), rd[hd].draw)]

\* faulty variant of limit_reached: the limit applies only once it is exceeded
limit_reached_strict(limit, elapsed) == limit # None /\ elapsed > limit

\* the tick limit reached
limit_reached(limit, elapsed) == limit # None /\ elapsed >= limit

\* "Check for end of episode": every agent is on its target
all_on_target(ags) == \A hd \in DOMAIN ags : ags[hd].position = ags[hd].target

\* faulty variant of completion_rewards: the bonus is added to what the tick
\* has accrued
completion_rewards_added(rews) ==
    [hd \in DOMAIN rews |-> rews[hd] + global_reward * Den]

\* "add global reward to all rewards": the rewards of a completed episode
completion_rewards(rews) ==
    [hd \in DOMAIN rews |-> 0 * rews[hd] + global_reward * Den]

\* faulty variant of reset_count_argument: the count after the increment
reset_count_argument_incremented(nr) == nr + 1

\* the reset count handed to the generator: self.num_resets as it is when
\* reset() begins; gen.num_resets holds the latest one handed over
reset_count_argument(nr) == nr

\* the state after RailEnv(...) has been constructed
Init ==
    \E sc \in DOMAIN Scenarios :
      \E limit \in Scenarios[sc].limits :
        \E rd \in AllResetDraws(Scenarios[sc].schedule, Scenarios[sc].stochastic) :
          /\ scenario = sc
          /\ agents = reset_agents(Scenarios[sc].schedule, Scenarios[sc].stochastic, rd)
          /\ dones = [hd \in DOMAIN Scenarios[sc].schedule |-> FALSE]
          /\ dones_all = FALSE
          /\ rewards_dict = [hd \in {} |-> 0]
          /\ elapsed_steps = 0
          /\ max_episode_steps = limit
          /\ num_resets = 0
          /\ pc = "idle"
          /\ i_agent = 0
          /\ action_in = [present |-> FALSE, value |-> DO_NOTHING]
          /\ only_forward = TRUE
          /\ gen = [pc |-> "off", num_resets |-> reset_count_argument(0)]

\* reset() called between two step() calls
Reset ==
    /\ pc = "idle"
    /\ num_resets < MaxResets
    /\ \E rd \in AllResetDraws(agents_static, stochastic) :
         agents' = reset_agents(agents_static, stochastic, rd)
    /\ num_resets' = num_resets + 1
    /\ elapsed_steps' = 0
    /\ dones' = [hd \in DOMAIN agents_static |-> FALSE]
    /\ dones_all' = FALSE
    /\ only_forward' = TRUE
    /\ gen' = [gen EXCEPT !.num_resets = reset_count_argument(num_resets)]
    /\ UNCHANGED <<scenario, rewards_dict, max_episode_steps, pc, i_agent, action_in>>

\* the number of step() calls the model follows in the current episode
TickBudget == IF num_resets = 0 THEN MaxTicks ELSE MaxTicksAfterReset

\* step(): from the call to the start of the agent loop, or to the early
\* return when the episode is already over
StepEnter ==
    /\ pc = "idle"
    /\ elapsed_steps < TickBudget
    /\ elapsed_steps' = elapsed_steps + 1
    /\ IF dones_all
       THEN /\ rewards_dict' = [hd \in Handles |-> 0 + global_reward * Den]
            /\ UNCHANGED <<pc, i_agent>>
       ELSE /\ rewards_dict' = [hd \in Handles |-> 0]
            /\ pc' = "loop"
            /\ i_agent' = 0
    /\ UNCHANGED <<scenario, agents, dones, dones_all, max_episode_steps,
                   num_resets, action_in, only_forward, gen>>

\* step(): one iteration of the agent loop
AgentIteration ==
    /\ pc = "loop"
    /\ i_agent \in Handles
    /\ \E entry \in ActionEntries :
         \E draw \in Draws(stochastic, agents[i_agent]) :
           LET r == iteration(rail, height, width, agents, dones, rewards_dict,
                              i_agent, entry, draw)
           IN  /\ agents' = r.agents
               /\ dones' = r.dones
               /\ rewards_dict' = r.rewards
               /\ action_in' = entry
               /\ only_forward' = (only_forward /\ entry.present /\ entry.value = MOVE_FORWARD)
    /\ i_agent' = i_agent + 1
    /\ UNCHANGED <<scenario, dones_all, elapsed_steps, max_episode_steps,
                   num_resets, pc, gen>>

\* step(): from the end of the agent loop to the return
StepExit ==
    /\ pc = "loop"
    /\ i_agent \notin Handles
    /\ LET completed == all_on_target(agents)
           limited == limit_reached(max_episode_steps, elapsed_steps)
       IN  /\ rewards_dict' = IF completed
                              THEN completion_rewards(rewards_dict)
                              ELSE rewards_dict
           /\ dones_all' = (dones_all \/ completed \/ limited)
           /\ dones' = IF limited THEN [hd \in Handles |-> TRUE] ELSE dones
    /\ pc' = "idle"
    /\ UNCHANGED <<scenario, agents, elapsed_steps, max_episode_steps,
                   num_resets, i_agent, action_in, only_forward, gen>>

Next == Reset \/ StepEnter \/ AgentIteration \/ StepExit

Spec == Init /\ [][Next]_vars

-----------------------------------------------------------------------------
(* grid_utils.py: Vec2dOperations and distance_on_rail *)

\* the environment has not been constructed
NoEnv ==
    /\ scenario = 1
    /\ agents = << >>
    /\ dones = << >>
    /\ dones_all = FALSE
    /\ rewards_dict = << >>
    /\ elapsed_steps = 0
    /\ max_episode_steps = None
    /\ num_resets = 0
    /\ pc = "off"
    /\ i_agent = 0
    /\ action_in = [present |-> FALSE, value |-> DO_NOTHING]
    /\ only_forward = TRUE

abs(x) == IF x < 0 THEN 0 - x ELSE x

\* Vec2dOperations.subtract
subtract(node_a, node_b) == <<node_a[1] - node_b[1], node_a[2] - node_b[2]>>

\* Vec2dOperations.get_manhattan_norm
get_manhattan_norm(node) == abs(node[1] * node[1]) + abs(node[2] * node[2])

\* Vec2dOperations.get_manhattan_distance
get_manhattan_distance(node_a, node_b) == get_manhattan_norm(subtract(node_b, node_a))

\* distance_on_rail
distance_on_rail(pos1, pos2) == abs(pos1[1] - pos2[1]) + abs(pos1[2] - pos2[2])

\* the integer vectors the calls are followed for
Vectors == (0 - MaxCoord..MaxCoord) \X (0 - MaxCoord..MaxCoord)

\* a caller is about to measure the distance between two vectors
VecInit ==
    /\ NoEnv
    /\ \E a \in Vectors : \E b \in Vectors :
         gen = [pc |-> "vec_call", node_a |-> a, node_b |-> b]

\* the caller asks Vec2dOperations
VecManhattan ==
    /\ gen.pc = "vec_call"
    /\ gen' = [pc |-> "vec_manhattan", node_a |-> gen.node_a, node_b |-> gen.node_b,
               norm |-> get_manhattan_norm(gen.node_b),
               distance |-> get_manhattan_distance(gen.node_a, gen.node_b)]
    /\ UNCHANGED envvars

\* the caller asks distance_on_rail
VecOnRail ==
    /\ gen.pc = "vec_call"
    /\ gen' = [pc |-> "vec_on_rail", node_a |-> gen.node_a, node_b |-> gen.node_b,
               distance |-> distance_on_rail(gen.node_a, gen.node_b)]
    /\ UNCHANGED envvars

VecNext == VecManhattan \/ VecOnRail

SpecVec == VecInit /\ [][VecNext]_vars

-----------------------------------------------------------------------------
(* complex_rail_generator (rail_generators.py and the legacy generators.py):
   the retry loops *)

sanity_max == 9000

\* the default min_dist and max_dist of complex_rail_generator
min_dist_default == 20
max_dist == 99999

\* the cells start and goal are drawn from. rail_generators.py draws
\* (row, column) pairs; the legacy generators.py draws start from
\* width x height and goal from height x height
StartDraws(g) ==
    IF g.legacy THEN (0..g.width - 1) \X (0..g.height - 1)
    ELSE (0..g.height - 1) \X (0..g.width - 1)

GoalDraws(g) ==
    IF g.legacy THEN (0..g.height - 1) \X (0..g.height - 1)
    ELSE (0..g.height - 1) \X (0..g.width - 1)

\* p is an index of rail_array, of shape (height, width)
InArray(g, p) == p[1] < g.height /\ p[2] < g.width

\* "check min/max distance"
dist_ok(g, start, goal) ==
    /\ ~ (distance_on_rail(start, goal) < g.min_dist)
    /\ ~ (distance_on_rail(start, goal) > g.max_dist)

\* the draws the search for a pair can accept on an empty grid
AcceptablePairs(g) ==
    {sg \in StartDraws(g) \X GoalDraws(g) :
        InArray(g, sg[1]) /\ InArray(g, sg[2]) /\ dist_ok(g, sg[1], sg[2])}

\* the draws for which rail_array[goal] or rail_array[start] is out of bounds
RaisingPairs(g) ==
    {sg \in StartDraws(g) \X GoalDraws(g) :
        ~ InArray(g, sg[1]) \/ ~ InArray(g, sg[2])}

\* generator(width, height, num_agents, num_resets) has run up to the first
\* loop. start_goal is the number of accepted pairs; failed counts the
\* connect_rail calls of the current loop that gave no path
GenInit ==
    /\ NoEnv
    /\ \E lg \in BOOLEAN : \E w \in 1..MaxSide : \E md \in {1, min_dist_default} :
       \E nsg \in 1..MaxPairs : \E nex \in 1..MaxPairs :
         gen = [pc |-> "start_goal", legacy |-> lg, width |-> w, height |-> MaxSide,
                min_dist |-> md, max_dist |-> max_dist, nr_start_goal |-> nsg,
                nr_extra |-> IF lg THEN 0 ELSE nex,
                nr_created |-> 0, created_sanity |-> 0, start_goal |-> 0,
                failed |-> 0]

\* the outcomes of "for _ in range(sanity_max)", the search for a pair:
\* a draw is accepted, or none is, or indexing rail_array raises IndexError
SearchOutcomes(g) ==
    {"exhausted"} \cup (IF AcceptablePairs(g) # {} THEN {"found"} ELSE {})
                  \cup (IF RaisingPairs(g) # {} THEN {"raised"} ELSE {})

\* the first loop is left: rail_generators.py goes on to the extra
\* connections, the legacy generator returns
after_start_goal(g) ==
    IF g.legacy
    THEN [g EXCEPT !.pc = "returned"]
    ELSE [g EXCEPT !.pc = "extra", !.created_sanity = 0, !.nr_created = 0, !.failed = 0]

\* one pass of "while nr_created < nr_start_goal and created_sanity < sanity_max":
\* the search for a pair gives up (all_ok false) or finds one, and
\* connect_rail gives a path or none
GenStartGoalIteration ==
    /\ gen.pc = "start_goal"
    /\ gen.nr_created < gen.nr_start_goal /\ gen.created_sanity < sanity_max
    /\ \E search \in SearchOutcomes(gen) : \E path_found \in BOOLEAN :
         gen' = CASE search = "raised" -> [gen EXCEPT !.pc = "raised"]
                  [] search = "exhausted" -> after_start_goal(gen)
                  [] OTHER ->
                       IF path_found
                       THEN [gen EXCEPT !.nr_created = @ + 1, !.start_goal = @ + 1]
                       ELSE [gen EXCEPT !.created_sanity = @ + 1, !.failed = @ + 1]
    /\ UNCHANGED envvars

\* the first loop's condition has become false
GenStartGoalExit ==
    /\ gen.pc = "start_goal"
    /\ ~ (gen.nr_created < gen.nr_start_goal /\ gen.created_sanity < sanity_max)
    /\ gen' = after_start_goal(gen)
    /\ UNCHANGED envvars

\* one pass of "while nr_created < nr_extra and created_sanity < sanity_max":
\* two non-empty cells can be found only where a path has been laid. The
\* model follows the loop up to sanity_max + 1 failed connections
GenExtraIteration ==
    /\ gen.pc = "extra"
    /\ gen.nr_created < gen.nr_extra /\ gen.created_sanity < sanity_max
    /\ \E all_ok \in {ok \in BOOLEAN : ok => gen.start_goal > 0} :
         \E path_found \in BOOLEAN :
           /\ (all_ok /\ ~ path_found) => gen.failed <= sanity_max
           /\ gen' = IF ~ all_ok
                     THEN [gen EXCEPT !.pc = "returned"]
                     ELSE IF path_found
                     THEN [gen EXCEPT !.nr_created = @ + 1]
                     ELSE [gen EXCEPT !.failed = @ + 1]
    /\ UNCHANGED envvars

\* the second loop's condition has become false: the generator returns
GenReturn ==
    /\ gen.pc = "extra"
    /\ ~ (gen.nr_created < gen.nr_extra /\ gen.created_sanity < sanity_max)
    /\ gen' = [gen EXCEPT !.pc = "returned"]
    /\ UNCHANGED envvars

GenNext == GenStartGoalIteration \/ GenStartGoalExit \/ GenExtraIteration \/ GenReturn

SpecGen == GenInit /\ [][GenNext]_vars

-----------------------------------------------------------------------------
(* complex_rail_generator (rail_generators.py): the placement of the
   start/goal pairs, with the cells drawn *)

sgn(x) == IF x < 0 THEN 0 - 1 ELSE IF x > 0 THEN 1 ELSE 0

\* the cell after p on the straight way to q
toward(p, q) == <<p[1] + sgn(q[1] - p[1]), p[2] + sgn(q[2] - p[2])>>

\* the cells of the straight segment from p to q (same row or same column)
between(p, q) ==
    {c \in ((IF p[1] < q[1] THEN p[1] ELSE q[1])..(IF p[1] < q[1] THEN q[1] ELSE p[1]))
            \X ((IF p[2] < q[2] THEN p[2] ELSE q[2])..(IF p[2] < q[2] THEN q[2] ELSE p[2])) :
        /\ (c[1] - p[1]) * (c[1] - q[1]) <= 0
        /\ (c[2] - p[2]) * (c[2] - q[2]) <= 0}

\* connect_rail: a path laid from start to goal, here along the column and
\* then the row of the goal (vfirst) or the other way round. Gives the
\* cells of the path and its second cell, new_path[1]
connect_rail(start, goal, vfirst) ==
    LET corner == IF vfirst THEN <<goal[1], start[2]>> ELSE <<start[1], goal[2]>>
    IN  [cells |-> between(start, corner) \cup between(corner, goal),
         second |-> toward(start, IF corner # start THEN corner ELSE goal)]

\* grid4_utils: the direction of the step from pos1 to pos2, and its reverse
get_direction(pos1, pos2) ==
    CASE pos2[1] < pos1[1] -> 0
      [] pos2[2] > pos1[2] -> 1
      [] pos2[1] > pos1[1] -> 2
      [] OTHER -> 3

mirror(dir) == (dir + 2) % 4

\* faulty variant of check_all_dist: the accepted pairs are not looked at
check_all_dist_skipped(start_goal, sg_new) == TRUE

\* "check distance to existing points"
check_all_dist(start_goal, sg_new) ==
    \A n \in DOMAIN start_goal : \A i \in 1..2 : \A j \in 1..2 :
        ~ (distance_on_rail(sg_new[i], start_goal[n][j]) < 2)

\* the draws of (start, goal) that pass every test of the search
AcceptableDraws(g) ==
    {sg \in StartDraws(g) \X GoalDraws(g) :
        /\ ~ (sg[2] \in g.rail \/ sg[1] \in g.rail)
        /\ dist_ok(g, sg[1], sg[2])
        /\ check_all_dist(g.start_goal, sg)}

\* the (min_dist, max_dist) the generator is made with: the defaults of the
\* legacy generator and of no upper limit, and a narrow range
DistRanges == {<<2, max_dist>>, <<2, 3>>}

\* generator(width, height, num_agents, num_resets) has run up to the first
\* loop: rail_array is empty (rail holds its non-empty cells)
PlaceInit ==
    /\ NoEnv
    /\ \E w \in {GridSide - 1, GridSide} : \E dr \in DistRanges :
       \E nsg \in 1..2 :
         gen = [pc |-> "start_goal", legacy |-> FALSE, width |-> w, height |-> GridSide,
                min_dist |-> dr[1], max_dist |-> dr[2], nr_start_goal |-> nsg,
                nr_created |-> 0, created_sanity |-> 0,
                start_goal |-> << >>, start_dir |-> << >>, rail |-> {}]

\* one pass of the first loop in which the search accepts the draw sg:
\* connect_rail lays a path, or gives none and leaves the grid as it is.
\* The model follows the loop up to MaxFailed connections without a path
PlaceConnect ==
    /\ gen.pc = "start_goal"
    /\ gen.nr_created < gen.nr_start_goal /\ gen.created_sanity < sanity_max
    /\ \E sg \in AcceptableDraws(gen) :
         \/ \E vfirst \in BOOLEAN :
              LET new_path == connect_rail(sg[1], sg[2], vfirst)
              IN  gen' = [gen EXCEPT
                            !.nr_created = @ + 1,
                            !.start_goal = Append(@, sg),
                            !.start_dir = Append(@, mirror(get_direction(sg[1], new_path.second))),
                            !.rail = @ \cup new_path.cells]
         \/ /\ gen.created_sanity < MaxFailed
            /\ gen' = [gen EXCEPT !.created_sanity = @ + 1]
    /\ UNCHANGED envvars

\* the search ends without an accepted draw: "we might as well give up"
PlaceGiveUp ==
    /\ gen.pc = "start_goal"
    /\ gen.nr_created < gen.nr_start_goal /\ gen.created_sanity < sanity_max
    /\ AcceptableDraws(gen) # StartDraws(gen) \X GoalDraws(gen)
    /\ gen' = [gen EXCEPT !.pc = "extra"]
    /\ UNCHANGED envvars

\* the first loop's condition has become false
PlaceExit ==
    /\ gen.pc = "start_goal"
    /\ ~ (gen.nr_created < gen.nr_start_goal /\ gen.created_sanity < sanity_max)
    /\ gen' = [gen EXCEPT !.pc = "extra"]
    /\ UNCHANGED envvars

PlaceNext == PlaceConnect \/ PlaceGiveUp \/ PlaceExit

SpecPlace == PlaceInit /\ [][PlaceNext]_vars

-----------------------------------------------------------------------------
(* random_rail_generator (rail_generators.py): the template-fill generator *)

\* bit (heading h, exit e) of a 16-bit transition code
CodeBit(code, h, e) == (code \div Pow2(15 - (4 * h + e))) % 2

\* the code turned clockwise by rot degrees: the heading groups and the
\* exit bits within each group are shifted alike
rotate_transition(code, rot) ==
    LET k == rot \div 90
        term(n) == CodeBit(code, n \div 4, n % 4)
                   * Pow2(15 - (4 * (((n \div 4) + k) % 4) + (((n % 4) + k) % 4)))
        acc[n \in 0..16] == IF n = 0 THEN 0 ELSE acc[n - 1] + term(n - 1)
    IN  acc[16]

\* the dead end entered heading north (its one open side is the south)
dead_end == 8192

\* RailEnvTransitions.transitions: the base cell types
transitions ==
    <<0, 32800, 37408, 33825, 38433, 52275, 20994, dead_end, 16386, 4608, 16416>>

\* <<N, E, S, W>>: has the code, for any heading, an exit to that side
template_of(code) ==
    [j \in 1..4 |-> IF \E h \in 0..3 : CodeBit(code, h, j - 1) = 1 THEN 1 ELSE 0]

\* template = [template[-1]] + template[:-1], n times
shifted(template, n) == [j \in 1..4 |-> template[((j - 1 - n) % 4) + 1]]

\* the (template, code) pairs of every base type but the dead end, in its
\* four rotations
transitions_templates_ ==
    {<<shifted(template_of(transitions[i]), k), rotate_transition(transitions[i], 90 * k)>> :
        i \in {n \in DOMAIN transitions : transitions[n] # dead_end}, k \in 0..3}

\* a required side that is set (0 or 1) and differs rules the template out
get_matching_templates_unconstrained_west(template) ==
    {tt[2] : tt \in {t \in transitions_templates_ :
        \A j \in 1..3 : template[j] >= 0 => template[j] = t[1][j]}}

\* the codes whose template agrees with every side that is required
get_matching_templates(template) ==
    {tt[2] : tt \in {t \in transitions_templates_ :
        \A j \in 1..4 : template[j] >= 0 => template[j] = t[1][j]}}

MAX_ATTEMPTS_FROM_SCRATCH == 10

MAX_INSERTIONS(g) == (g.width - 2) * (g.height - 2) * 10

\* the grid of None cells and the interior cells an attempt starts from
empty_rail(g) == [p \in (0..g.height - 1) \X (0..g.width - 1) |-> None]

interior(g) == (1..g.height - 2) \X (1..g.width - 2)

\* the worklist an attempt starts from: the interior cells, row by row
interior_list(g) ==
    [i \in 1..(g.height - 2) * (g.width - 2) |->
        <<1 + ((i - 1) \div (g.width - 2)), 1 + ((i - 1) % (g.width - 2))>>]

\* the cells of a worklist
cells_of(list) == {list[i] : i \in 1..Len(list)}

\* faulty variant of remove: the selected cell stays in the worklist
remove_skipped(list, cell) == list

\* list.remove(cell): the list without the first occurrence of the cell
remove(list, cell) ==
    IF cell \notin cells_of(list) THEN list
    ELSE LET i == CHOOSE j \in 1..Len(list) :
                      list[j] = cell /\ \A m \in 1..j - 1 : list[m] # cell
         IN  SubSeq(list, 1, i - 1) \o SubSeq(list, i + 1, Len(list))

\* the N, E, S, W neighbours of a cell
neighbour(cell, k) ==
    <<cell[1] + <<-1, 0, 1, 0>>[k], cell[2] + <<0, 1, 0, -1>>[k]>>

\* has the code an exit toward side k (1..4 = N, E, S, W), for any heading
max_bit(code, k) == IF \E h \in 0..3 : CodeBit(code, h, k - 1) = 1 THEN 1 ELSE 0

\* what the filled neighbours require of the cell: 1 where the neighbour
\* has an exit toward the cell, 0 where it has none, -1 where it is unfilled
valid_template(rl, cell) ==
    [k \in 1..4 |->
        IF rl[neighbour(cell, k)] = None THEN -1
        ELSE max_bit(rl[neighbour(cell, k)], ((k + 1) % 4) + 1)]

\* the rotation of the dead end that opens toward side k
dead_end_toward(k) == rotate_transition(dead_end, <<180, 270, 0, 90>>[k])

\* the side whose requirement is dropped when nothing matches: the first
\* of those that leave the most templates (0 if none leaves any)
bestk(vt) ==
    LET n(k) == Cardinality(get_matching_templates([vt EXCEPT ![k] = -1]))
    IN  IF \A k \in 1..4 : n(k) = 0 THEN 0
        ELSE CHOOSE k \in 1..4 :
                 /\ \A j \in 1..4 : n(j) <= n(k)
                 /\ \A j \in 1..k - 1 : n(j) < n(k)

\* the outcomes of one pass of the fill loop for `cell`: the rail and the
\* worklist after it
insertions(g, cell) ==
    LET vt == valid_template(g.rail, cell)
        rest == remove(g.cells_to_fill, cell)
        ones == {k \in 1..4 : vt[k] = 1}
    IN  IF get_matching_templates(vt) # {}
        THEN {[rail |-> [g.rail EXCEPT ![cell] = code], cells_to_fill |-> rest] :
                 code \in get_matching_templates(vt)}
        ELSE IF Cardinality(ones) = 1
        THEN {[rail |-> [g.rail EXCEPT ![cell] = dead_end_toward(k)],
               cells_to_fill |-> rest] : k \in ones}
        ELSE IF bestk(vt) > 0
        THEN {[rail |-> [g.rail EXCEPT ![cell] = code,
                                       ![neighbour(cell, bestk(vt))] = None],
               cells_to_fill |-> Append(rest, neighbour(cell, bestk(vt)))] :
                 code \in get_matching_templates([vt EXCEPT ![bestk(vt)] = -1])}
        ELSE {[rail |-> [g.rail EXCEPT ![cell] = 0], cells_to_fill |-> rest]}

\* faulty variant of border_code: the neighbour's exits are not looked at
border_code_always(rl, inner, k) == dead_end_toward(((k + 1) % 4) + 1)

\* the border cell next to `inner`: a dead end opening toward it when
\* `inner` has an exit toward side k, else empty
border_code(rl, inner, k) ==
    IF rl[inner] # None /\ max_bit(rl[inner], k) = 1
    THEN dead_end_toward(((k + 1) % 4) + 1)
    ELSE 0

\* the west and east border columns, then the north and south border rows,
\* then every cell still None is made empty
padded(g) ==
    LET h == g.height
        w == g.width
        rows == [p \in DOMAIN g.rail |->
                   IF p[2] = w - 1 THEN border_code(g.rail, <<p[1], w - 2>>, 2)
                   ELSE IF p[2] = 0 THEN border_code(g.rail, <<p[1], 1>>, 4)
                   ELSE g.rail[p]]
        cols == [p \in DOMAIN g.rail |->
                   IF p[1] = h - 1 THEN border_code(rows, <<h - 2, p[2]>>, 3)
                   ELSE IF p[1] = 0 THEN border_code(rows, <<1, p[2]>>, 1)
                   ELSE rows[p]]
    IN  [p \in DOMAIN g.rail |-> IF cols[p] = None THEN 0 ELSE cols[p]]

\* generator(width, height, ...) is called: the first attempt begins
FillInit ==
    /\ NoEnv
    /\ \E w \in 2..MaxWidth :
         LET g == [pc |-> "fill", width |-> w, height |-> 3]
         IN  gen = [pc |-> "fill", width |-> w, height |-> 3,
                    attempt_number |-> 0, num_insertions |-> 0,
                    rail |-> empty_rail(g), cells_to_fill |-> interior_list(g),
                    error |-> FALSE]

\* one pass of "while num_insertions < MAX_INSERTIONS and len(cells_to_fill) > 0"
FillInsertion ==
    /\ gen.pc = "fill"
    /\ gen.num_insertions < MAX_INSERTIONS(gen)
    /\ \E cell \in cells_of(gen.cells_to_fill) : \E r \in insertions(gen, cell) :
         gen' = [gen EXCEPT !.rail = r.rail, !.cells_to_fill = r.cells_to_fill,
                            !.num_insertions = @ + 1]
    /\ UNCHANGED envvars

\* the fill loop is left: with the budget used up the attempt is counted as
\* failed and, below MAX_ATTEMPTS_FROM_SCRATCH, the next one starts from
\* scratch; otherwise the attempts end
FillAttemptEnd ==
    /\ gen.pc = "fill"
    /\ ~ (gen.num_insertions < MAX_INSERTIONS(gen) /\ gen.cells_to_fill # <<>>)
    /\ gen' = IF gen.num_insertions = MAX_INSERTIONS(gen)
              THEN IF gen.attempt_number + 1 < MAX_ATTEMPTS_FROM_SCRATCH
                   THEN [gen EXCEPT !.attempt_number = @ + 1, !.num_insertions = 0,
                                    !.rail = empty_rail(gen),
                                    !.cells_to_fill = interior_list(gen)]
                   ELSE [gen EXCEPT !.attempt_number = @ + 1, !.pc = "fill_pad"]
              ELSE [gen EXCEPT !.pc = "fill_pad"]
    /\ UNCHANGED envvars

\* after the attempts: the message of the final failure is printed, the
\* border is padded and the grid is returned
FillReturn ==
    /\ gen.pc = "fill_pad"
    /\ gen' = [gen EXCEPT !.pc = "fill_returned", !.rail = padded(gen),
                          !.error = (gen.attempt_number = MAX_ATTEMPTS_FROM_SCRATCH)]
    /\ UNCHANGED envvars

FillNext == FillInsertion \/ FillAttemptEnd \/ FillReturn

SpecFill == FillInit /\ [][FillNext]_vars

-----------------------------------------------------------------------------
(* sparse_rail_generator (rail_generators.py): city placement, and the
   start/target pairs of the hints *)

max_tracks_in_city == 4

\* int(np.ceil((max_tracks_in_city + 2) / 2.0)) + 1
node_radius == ((max_tracks_in_city + 3) \div 2) + 1

\* the centres closer than radius in both coordinates overlap
city_overlap(center_1, center_2, radius) ==
    abs(center_1[1] - center_2[1]) < radius /\ abs(center_1[2] - center_2[2]) < radius

\* the positions a city centre is drawn from
CentreDraws(g) ==
    {<<node_radius + 1 + dx, node_radius + 1 + dy>> :
        dx \in 0..g.height - 2 * (node_radius + 1) - 1,
        dy \in 0..g.width - 2 * (node_radius + 1) - 1}

\* faulty variant of to_close: no placed city is looked at
to_close_never(g, p) == FALSE

to_close(g, p) ==
    \E n \in DOMAIN g.node_positions :
        city_overlap(p, g.node_positions[n], 2 * (node_radius + 1) + 1)

\* the grids of the calls followed: room for a second city in the
\* widest one only
SparseWidths == {2 * (node_radius + 1) + 2 * (node_radius + 1) + 1,
                 2 * (node_radius + 1) + 2 * (node_radius + 1) + 2}

\* generator(width, height, num_agents) is called with num_cities cities
SparseInit ==
    /\ NoEnv
    /\ \E w \in SparseWidths : \E n \in 0..MaxCities :
         gen = [pc |-> "place", width |-> w, height |-> 2 * (node_radius + 1) + 2,
                nb_nodes |-> n, node_idx |-> 0, node_positions |-> << >>, tries |-> 0]

\* "for node_idx in range(nb_nodes)": the search for the next city begins
SparsePlaceNode ==
    /\ gen.pc = "place"
    /\ gen.node_idx < gen.nb_nodes
    /\ gen' = [gen EXCEPT !.pc = "try", !.tries = 0]
    /\ UNCHANGED envvars

\* one pass of "while to_close": a position is drawn; if it overlaps no
\* city it is placed and the search ends; the search also ends after
\* more than 200 tries
SparseTry ==
    /\ gen.pc = "try"
    /\ \E p \in CentreDraws(gen) :
         LET close == to_close(gen, p)
             tries == gen.tries + 1
         IN  gen' = [gen EXCEPT
                       !.node_positions = IF close THEN @ ELSE Append(@, p),
                       !.tries = tries,
                       !.pc = IF close /\ ~ (tries > 200) THEN "try" ELSE "place",
                       !.node_idx = IF close /\ ~ (tries > 200) THEN @ ELSE @ + 1]
    /\ UNCHANGED envvars

\* _generate_node_connection_points: for the first city the call
\* distance_on_rail(node_position, neighb_node, metric="Manhattan") raises
\* TypeError, distance_on_rail taking two positions only; without cities
\* every later stage loops over empty lists
SparseConnect ==
    /\ gen.pc = "place"
    /\ gen.node_idx = gen.nb_nodes
    /\ gen' = [gen EXCEPT !.pc = IF gen.node_positions # << >> THEN "raised" ELSE "built"]
    /\ UNCHANGED envvars

\* no city: no station, no agent, and the empty hints are returned
SparseReturn ==
    /\ gen.pc = "built"
    /\ gen' = [gen EXCEPT !.pc = "sparse_returned"]
    /\ UNCHANGED envvars

SparseNext == SparsePlaceNode \/ SparseTry \/ SparseConnect \/ SparseReturn

SpecSparse == SparseInit /\ [][SparseNext]_vars

-----------------------------------------------------------------------------
(* sparse_rail_generator: the connection points of one city, from the
   direction of its closest neighbour on *)

\* tmp_coordinates of the slot on a side of the city
connection_point(node_position, node_size, direction, slot) ==
    CASE direction = 0 -> <<node_position[1] - node_size, node_position[2] + slot>>
      [] direction = 1 -> <<node_position[1] + slot, node_position[2] + node_size>>
      [] direction = 2 -> <<node_position[1] + node_size, node_position[2] + slot>>
      [] OTHER -> <<node_position[1] + slot, node_position[2] - node_size>>

\* connection_idx in range(start_idx, start_idx + number_of_out_rails + 1)
is_out_rail(connection_idx, start_idx, number_of_out_rails) ==
    start_idx <= connection_idx /\ connection_idx < start_idx + number_of_out_rails + 1

\* the generator is made with max_inter_city_rails; the closest neighbour of
\* the city lies in current_closest_direction
PointsInit ==
    /\ NoEnv
    /\ \E mr \in 1..MaxRails : \E d \in 0..3 :
         gen = [pc |-> "sides", node_position |-> <<node_radius + 1, node_radius + 1>>,
                max_inter_city_rails |-> mr,
                max_inter_city_rails_allowed |->
                    IF mr > max_tracks_in_city THEN max_tracks_in_city ELSE mr,
                connection_sides_idx |-> <<d, (d + 2) % 4>>]

\* the number of tracks and of outward rails are drawn
PointsDraw ==
    /\ gen.pc = "sides"
    /\ \E nr \in 2..max_tracks_in_city :
         LET most == IF gen.max_inter_city_rails_allowed < nr
                     THEN gen.max_inter_city_rails_allowed ELSE nr
         IN  \E out \in 1..most :
               gen' = [pc |-> "drawn", node_position |-> gen.node_position,
                       max_inter_city_rails |-> gen.max_inter_city_rails,
                       max_inter_city_rails_allowed |-> gen.max_inter_city_rails_allowed,
                       connection_sides_idx |-> gen.connection_sides_idx,
                       nr_of_connection_points |-> nr,
                       number_of_out_rails |-> out,
                       start_idx |-> (nr - out) \div 2]
    /\ UNCHANGED envvars

\* "for direction in range(4)": the points of every side are laid out
PointsLay ==
    /\ gen.pc = "drawn"
    /\ LET per_direction ==
               [d \in 0..3 |-> IF d = gen.connection_sides_idx[1] \/ d = gen.connection_sides_idx[2]
                               THEN gen.nr_of_connection_points ELSE 0]
           point(d, k) == connection_point(gen.node_position, node_radius, d,
                                           k - (per_direction[d] \div 2))
       IN  gen' = [pc |-> "laid", node_position |-> gen.node_position,
                   max_inter_city_rails |-> gen.max_inter_city_rails,
                   nr_of_connection_points |-> gen.nr_of_connection_points,
                   number_of_out_rails |-> gen.number_of_out_rails,
                   connections_per_direction |-> per_direction,
                   inner |-> [d \in 0..3 |-> [k \in 1..per_direction[d] |-> point(d, k - 1)]],
                   outer |-> [d \in 0..3 |->
                                {point(d, k) : k \in {c \in 0..per_direction[d] - 1 :
                                     is_out_rail(c, gen.start_idx, gen.number_of_out_rails)}}]]
    /\ UNCHANGED envvars

\* the number of bits set in a transition code ("while cell_type > 0")
RECURSIVE nbits(_)
nbits(cell_type) ==
    IF cell_type > 0 THEN (cell_type % 2) + nbits(cell_type \div 2) ELSE 0

\* _city_cells: the square of the given radius around the centre
city_cells(center, radius) ==
    ((center[1] - radius)..(center[1] + radius)) \X ((center[2] - radius)..(center[2] + radius))

\* _build_inner_cities for the city: the parallel tracks are laid from one
\* side to the other, even tracks from the first side with points, odd
\* ones from the opposite side; connect_straigt_line gives the cells of the
\* straight line between its endpoints. through_path_cells receives a track
\* between two outward points while it is still empty
PointsBuild ==
    /\ gen.pc = "laid"
    /\ LET boarder == CHOOSE i \in 0..3 :
                          /\ Len(gen.inner[i]) > 0
                          /\ \A j \in 0..(i - 1) : Len(gen.inner[j]) = 0
           opposite_boarder == (boarder + 2) % 4
           all_outer_connection_points == UNION {gen.outer[d] : d \in 0..3}
           track(id) ==
               LET near == gen.inner[boarder][id + 1]
                   far == gen.inner[opposite_boarder][id + 1]
                   source == IF id % 2 = 0 THEN near ELSE far
                   target == IF id % 2 = 0 THEN far ELSE near
               IN  [source |-> source, target |-> target, cells |-> between(source, target),
                    outward |-> target \in all_outer_connection_points
                                  /\ source \in all_outer_connection_points]
           tracks == [id \in 0..(Len(gen.inner[boarder]) - 1) |-> track(id)]
           \* "len(through_path_cells[current_city]) < 1": the first such track
           through == {id \in DOMAIN tracks :
                          tracks[id].outward /\ \A j \in 0..(id - 1) : ~ tracks[j].outward}
       IN  gen' = [pc |-> "built", node_position |-> gen.node_position,
                   boarder |-> boarder, tracks |-> tracks,
                   through_path_cells |-> UNION {tracks[id].cells : id \in through}]
    /\ UNCHANGED envvars

\* _set_trainstation_positions for the city: every cell of the inner square
\* that is not a through-path cell and has one or two transitions becomes
\* a candidate station. Inside that square the grid holds the straight
\* parallel tracks only
PointsStations ==
    /\ gen.pc = "built"
    /\ LET get_full_transitions_at(loc) ==
               IF \E id \in DOMAIN gen.tracks : loc \in gen.tracks[id].cells
               THEN (IF gen.boarder % 2 = 0 THEN StraightNS ELSE StraightEW)
               ELSE EmptyCell
       IN  gen' = [pc |-> "stations", node_position |-> gen.node_position,
                   boarder |-> gen.boarder, tracks |-> gen.tracks,
                   through_path_cells |-> gen.through_path_cells,
                   train_stations |->
                      {loc \in city_cells(gen.node_position, node_radius - 1) :
                          /\ loc \notin gen.through_path_cells
                          /\ 1 <= nbits(get_full_transitions_at(loc))
                          /\ nbits(get_full_transitions_at(loc)) <= 2}]
    /\ UNCHANGED envvars

PointsNext == PointsDraw \/ PointsLay \/ PointsBuild \/ PointsStations

SpecPoints == PointsInit /\ [][PointsNext]_vars

-----------------------------------------------------------------------------
(* sparse_rail_generator._fix_transitions: the order of the repairs.
   cell_neighbours_valid and fix_transitions belong to the grid; here a
   check gives either answer and a repair is recorded in `fixed` *)

\* int('1000010000100001', 2)
diamond_crossing == 33825

\* the codes of the city cells followed
CityCodes == {EmptyCell, StraightEW, diamond_crossing}

\* _fix_transitions(city_cells, grid_map) is called
RepairInit ==
    /\ NoEnv
    /\ \E n \in 1..MaxCityCells : \E codes \in [1..n -> CityCodes] :
         gen = [pc |-> "classify", grid |-> codes, cell |-> 1,
                empty_to_fix |-> << >>, rails_to_fix |-> << >>, fixed |-> << >>]

\* one pass of "for cell in city_cells"
RepairClassify ==
    /\ gen.pc = "classify"
    /\ \E check \in BOOLEAN :
         LET cell == gen.cell
             code == gen.grid[cell]
             last == cell = Len(gen.grid)
         IN  gen' = [gen EXCEPT
                       !.fixed = IF code = diamond_crossing
                                 THEN Append(@, [cell |-> cell, code |-> code]) ELSE @,
                       !.empty_to_fix = IF ~ check /\ code = 0 THEN Append(@, cell) ELSE @,
                       !.rails_to_fix = IF ~ check /\ code # 0 THEN Append(@, cell) ELSE @,
                       !.cell = IF last THEN 1 ELSE @ + 1,
                       !.pc = IF last THEN "empty_to_fix" ELSE @]
    /\ UNCHANGED envvars

\* "Fix empty cells first": one pass of "for cell in empty_to_fix", or the
\* end of that loop
RepairEmpty ==
    /\ gen.pc = "empty_to_fix"
    /\ gen' = IF gen.cell <= Len(gen.empty_to_fix)
              THEN [gen EXCEPT
                      !.fixed = Append(@, [cell |-> gen.empty_to_fix[gen.cell],
                                           code |-> gen.grid[gen.empty_to_fix[gen.cell]]]),
                      !.cell = @ + 1]
              ELSE [gen EXCEPT !.pc = "rails_to_fix", !.cell = 1]
    /\ UNCHANGED envvars

\* "Fix all other cells": one pass of "for cell in rails_to_fix"
RepairRails ==
    /\ gen.pc = "rails_to_fix"
    /\ gen.cell <= Len(gen.rails_to_fix)
    /\ gen' = [gen EXCEPT
                 !.fixed = Append(@, [cell |-> gen.rails_to_fix[gen.cell],
                                      code |-> gen.grid[gen.rails_to_fix[gen.cell]]]),
                 !.cell = @ + 1]
    /\ UNCHANGED envvars

RepairNext == RepairClassify \/ RepairEmpty \/ RepairRails

SpecRepair == RepairInit /\ [][RepairNext]_vars

-----------------------------------------------------------------------------
(* sparse_rail_generator: the start/target pairs of the hints *)

\* the sum of a sequence of numbers
RECURSIVE sum(_)
sum(s) == IF s = << >> THEN 0 ELSE s[1] + sum(Tail(s))

\* every city, with or without a free slot
avail_nodes_unfiltered(node_available) == DOMAIN node_available

\* [idx for idx, val in enumerate(node_available) if val > 0]
avail_nodes(node_available) == {idx \in DOMAIN node_available : node_available[idx] > 0}

\* the stations have been placed: train_stations[c] is the number of
\* stations of city c (cities are counted from 1 here), `requested` the
\* num_agents of the call
PairsInit ==
    /\ NoEnv
    /\ \E n \in 0..MaxCities : \E st \in [1..n -> 0..MaxStations] :
       \E na \in 0..MaxAgents :
         gen = [pc |-> "stations", requested |-> na, num_agents |-> na,
                train_stations |-> st, loop_n |-> 0, agent_idx |-> 0,
                node_available_start |-> st, node_available_target |-> st,
                agent_start_targets_nodes |-> << >>]

\* "if num_agents > built_num_trainstation: num_agents = built_num_trainstation"
\* and the start of _generate_start_target_pairs
PairsAdjust ==
    /\ gen.pc = "stations"
    /\ LET built == sum(gen.train_stations)
           n == IF gen.num_agents > built THEN built ELSE gen.num_agents
       IN  gen' = [gen EXCEPT !.pc = "pairs", !.num_agents = n, !.loop_n = n]
    /\ UNCHANGED envvars

\* one pass of "for agent_idx in range(num_agents)": np.random.choice
\* raises on an empty list; a start and a target in different cities take
\* a slot each; when start and target can be drawn alike 100 times over,
\* the agent is removed
PairsAssign ==
    /\ gen.pc = "pairs"
    /\ gen.agent_idx < gen.loop_n
    /\ LET starts == avail_nodes(gen.node_available_start)
           targets == avail_nodes(gen.node_available_target)
       IN  \/ /\ starts = {} \/ targets = {}
              /\ gen' = [gen EXCEPT !.pc = "raised"]
           \/ \E s \in starts : \E t \in targets :
                /\ s # t
                /\ gen' = [gen EXCEPT !.node_available_start[s] = @ - 1,
                                      !.node_available_target[t] = @ - 1,
                                      !.agent_start_targets_nodes = Append(@, <<s, t>>),
                                      !.agent_idx = @ + 1]
           \/ /\ starts # {} /\ targets # {}
              /\ starts \cap targets # {}
              /\ gen' = [gen EXCEPT !.num_agents = @ - 1, !.agent_idx = @ + 1]
    /\ UNCHANGED envvars

\* the hints are returned
PairsReturn ==
    /\ gen.pc = "pairs"
    /\ gen.agent_idx = gen.loop_n
    /\ gen' = [gen EXCEPT !.pc = "sparse_returned"]
    /\ UNCHANGED envvars

PairsNext == PairsAdjust \/ PairsAssign \/ PairsReturn

SpecPairs == PairsInit /\ [][PairsNext]_vars

-----------------------------------------------------------------------------
(* The generators and numpy's global random state *)

\* the global random state: the value it was last seeded with and the
\* number of draws made since
seeded(k) == [seeded_with |-> k, drawn |-> 0]

after_draw(state) == [state EXCEPT !.drawn = @ + 1]

Variants == {"complex_rail_generator", "sparse_rail_generator", "random_rail_generator"}

\* the state a generator makes its first draw in: complex_rail_generator
\* and sparse_rail_generator begin with np.random.seed(seed + num_resets),
\* random_rail_generator draws from the state it finds
stream_of(g) ==
    IF g.variant = "random_rail_generator"
    THEN g.random_state
    ELSE seeded(g.seed + g.num_resets)

\* a generator has been made with `seed`; the global random state is
\* whatever earlier code left
SeedInit ==
    /\ NoEnv
    /\ \E v \in Variants : \E sd \in 0..MaxSeed : \E nr \in 0..MaxSeed :
       \E k \in 0..MaxSeed :
         gen = [pc |-> "calls", variant |-> v, seed |-> sd, num_resets |-> nr,
                random_state |-> seeded(k), calls |-> << >>]

\* other code draws a random number
SeedAmbientDraw ==
    /\ gen.pc = "calls"
    /\ gen.random_state.drawn < MaxDraws
    /\ gen' = [gen EXCEPT !.random_state = after_draw(@)]
    /\ UNCHANGED envvars

\* generator(width, height, num_agents, num_resets) is called, with the
\* arguments of the call before: what it returns is decided by the random
\* stream it draws from, which `calls` records; its draws advance the
\* global state
SeedGeneratorCall ==
    /\ gen.pc = "calls"
    /\ Len(gen.calls) < 2
    /\ gen' = [gen EXCEPT !.calls = Append(@, stream_of(gen)),
                          !.random_state = after_draw(stream_of(gen))]
    /\ UNCHANGED envvars

SeedNext == SeedAmbientDraw \/ SeedGeneratorCall

SpecSeed == SeedInit /\ [][SeedNext]_vars

-----------------------------------------------------------------------------
(* The progress fraction as the double it is: speed 1/k, added tick by tick.
   A double x is held as the integer x / unit, unit = 2^-(53 + t) with
   2^t <= k < 2^(t + 1), written [hi, lo] = hi * 2^28 + lo; the doubles of
   [2^(52 + j), 2^(53 + j)) units are the multiples of 2^j units. *)

Limb == Pow2(14) * Pow2(14)

\* t with 2^t <= k < 2^(t + 1)
binade(k) == CHOOSE t \in 0..14 : Pow2(t) <= k /\ k < Pow2(t + 1)

\* 1.0 and 0.0
fl_one(k) == [hi |-> Pow2(11) * Pow2(14) * Pow2(binade(k)), lo |-> 0]

fl_zero == [hi |-> 0, lo |-> 0]

\* hi * 2^28 + lo with lo brought back below 2^28
carried(hi, lo) == [hi |-> hi + (lo \div Limb), lo |-> lo % Limb]

\* x >= y
fl_ge(x, y) == x.hi > y.hi \/ (x.hi = y.hi /\ x.lo >= y.lo)

\* j with the doubles around v spaced 2^j units apart
spacing(v) ==
    LET h == v.hi \div (Pow2(12) * Pow2(12))
    IN  IF h = 0 THEN 0 ELSE CHOOSE j \in 0..6 : Pow2(j) <= h /\ h < Pow2(j + 1)

\* the exact value v rounded to the nearest double, ties to even
rounded(v) ==
    LET q == Pow2(spacing(v))
        r == v.lo % q
        up == 2 * r > q \/ (2 * r = q /\ (v.lo \div q) % 2 = 1)
    IN  carried(v.hi, v.lo - r + (IF up THEN q ELSE 0))

\* x + y in double arithmetic
fl_add(x, y) == rounded(carried(x.hi + y.hi, x.lo + y.lo))

\* the double 1.0 / k: long division of 1.0 by k, rounded
fl_speed(k) ==
    LET one == fl_one(k)
        mid == (one.hi % k) * Pow2(14)
        low == (mid % k) * Pow2(14)
        q == carried(one.hi \div k, (mid \div k) * Pow2(14) + (low \div k))
        r == low % k
        up == 2 * r > k \/ (2 * r = k /\ q.lo % 2 = 1)
    IN  carried(q.hi, q.lo + (IF up THEN 1 ELSE 0))

\* an agent of speed 1/k has had a valid action resolved at a cell entry;
\* it is moving, its new cell stays free and it does not break
ProgressInit ==
    /\ NoEnv
    /\ \E k \in 1..MaxK :
         gen = [pc |-> "resolved", k |-> k, speed |-> fl_speed(k),
                position_fraction |-> fl_zero, ticks |-> 0]

\* one tick: the fraction advances by the speed and, at 1.0 or more, the
\* cell transition is performed
ProgressTick ==
    /\ gen.pc = "resolved"
    /\ LET f == fl_add(gen.position_fraction, gen.speed)
       IN  gen' = IF fl_ge(f, fl_one(gen.k))
                  THEN [gen EXCEPT !.pc = "committed", !.ticks = @ + 1,
                                   !.position_fraction = fl_zero]
                  ELSE [gen EXCEPT !.ticks = @ + 1, !.position_fraction = f]
    /\ UNCHANGED envvars

\* the agent goes on from its new cell (not followed further)
ProgressDone ==
    /\ gen.pc = "committed"
    /\ gen' = [gen EXCEPT !.pc = "entered"]
    /\ UNCHANGED envvars

ProgressNext == ProgressTick \/ ProgressDone

SpecProgress == ProgressInit /\ [][ProgressNext]_vars

-----------------------------------------------------------------------------
(* Vocabulary of the properties *)

\* a step() call has returned
EndOfTick == pc = "idle" /\ elapsed_steps > 0

\* the agent loop has just finished: rewards are as the loop accrued them
LoopDone == pc = "loop" /\ i_agent \notin Handles

\* agent k's loop iteration is the latest thing that happened
JustProcessed(k) == pc = "loop" /\ i_agent = k + 1

\* this transition is the loop iteration of agent i
IterationOf(i) == pc = "loop" /\ i_agent = i /\ i_agent' = i + 1

EveryoneOnTarget == \A hd \in Handles : agents[hd].position = agents[hd].target

Bonus == global_reward * Den

InGrid(p) == p[1] >= 0 /\ p[1] < height /\ p[2] >= 0 /\ p[2] < width

\* the legal exits of agent a's cell for its heading
Exits(a) == {d \in 0..3 : get_transitions(rail, a.position, a.direction)[d] = 1}

\* the cell the stored transition of agent a leads into, if that
\* transition is grid-valid and legal
PendingInto(ags, a, X) ==
    LET r == check_action_on_agent(rail, height, width, ags,
                                   a.transition_action_on_cellexit, a)
    IN  r.new_position = X /\ r.new_cell_valid /\ r.transition_valid

\* in this iteration agent i tried to commit into X and was refused
RefusedInto(i, X) ==
    /\ ~ dones[i]
    /\ agents'[i].malfunction = 0
    /\ agents'[i].position_fraction >= Den
    /\ agents'[i].position = agents[i].position
    /\ PendingInto(agents', agents'[i], X)

\* in this iteration agent i tried to commit into X (and entered it or not)
TriedInto(i, X) ==
    \/ RefusedInto(i, X)
    \/ agents'[i].position = X /\ agents[i].position # X

\* agent j, processed earlier in this tick, has left cell X in this tick
LeftThisTick(j, X) ==
    agents[j].old_position = X /\ agents[j].position # X

-----------------------------------------------------------------------------
(* C1-C9: the per-tick state machine *)

StartsDistinct ==
    \A h1, h2 \in DOMAIN agents_static :
        h1 # h2 => agents_static[h1].position # agents_static[h2].position

\* C1: after a reset with pairwise distinct start cells, no two agents hold
\* the same position at the end of any tick
C1_NoSharedCell ==
    (StartsDistinct /\ pc = "idle") =>
        \A h1, h2 \in Handles : h1 # h2 => agents[h1].position # agents[h2].position

\* C1 witness: a tick has ended with an agent held back at 1.0 in front of
\* a cell another agent stands on
C1_Witness ==
    /\ EndOfTick
    /\ \E h1, h2 \in Handles :
         /\ h1 # h2
         /\ agents[h1].position_fraction >= Den
         /\ PendingInto(agents, agents[h1], agents[h2].position)

\* C2 as stated: whenever agent j < i has left X in this tick and i tries to
\* commit into X, i enters X in this tick
C2_Original ==
    [][\A i \in Handles : \A j \in Handles :
         (IterationOf(i) /\ j < i /\ LeftThisTick(j, agents[j].old_position)
            /\ TriedInto(i, agents[j].old_position))
         => agents'[i].position = agents[j].old_position]_vars

\* C2 amended: i enters X in the tick in which j < i left it provided no
\* third agent has entered X before i is processed; and an agent i that was
\* refused X while j > i stood on it has not moved when j leaves X later in
\* the same tick
C2_HandleOrder ==
    [][\A i \in Handles : \A j \in Handles :
         /\ (IterationOf(i) /\ j < i /\ LeftThisTick(j, agents[j].old_position)
               /\ TriedInto(i, agents[j].old_position)
               /\ \A k \in Handles : agents[k].position # agents[j].old_position)
            => agents'[i].position = agents[j].old_position
         /\ (IterationOf(i) /\ j > i /\ TriedInto(i, agents[j].position))
            => agents'[i].position = agents[i].position
         /\ (IterationOf(j) /\ i < j /\ agents'[j].position # agents[j].position
               /\ ~ dones[i] /\ agents[i].malfunction = 0
               /\ agents[i].position_fraction >= Den
               /\ PendingInto(agents, agents[i], agents[j].position))
            => /\ agents'[i].position = agents[i].old_position
               /\ agents'[i].position_fraction >= Den]_vars

\* C2 witness: agent i has moved into the cell agent j < i left in this tick
C2_Witness ==
    \E i \in Handles : \E j \in Handles :
        /\ pc = "loop" /\ i < i_agent /\ j < i
        /\ agents[j].old_position # agents[j].position
        /\ agents[i].old_position # agents[i].position
        /\ agents[i].position = agents[j].old_position

\* agents[i] after its iteration reads `value` (with the draw `draw`)
Outcome(i, value, draw) ==
    iteration(rail, height, width, agents, dones, rewards_dict, i,
              [present |-> TRUE, value |-> value], draw)

\* agent a stands at a cell entry whose heading has exactly one legal exit,
\* leading into a non-empty cell of the grid
SingleExit(a) ==
    /\ AtCellEntry(a.position_fraction)
    /\ Cardinality(Exits(a)) = 1
    /\ \A d \in Exits(a) :
         /\ InGrid(get_new_position(a.position, d))
         /\ rail[get_new_position(a.position, d)] > 0

\* C3: at a cell entry with exactly one legal exit MOVE_LEFT, MOVE_FORWARD
\* and MOVE_RIGHT have the same outcome, and an agent that moves takes
\* that exit
C3_SingleExitForcing ==
    (pc = "loop" /\ i_agent \in Handles /\ ~ dones[i_agent]
       /\ SingleExit(agents[i_agent])) =>
        \A draw \in Draws(stochastic, agents[i_agent]) :
            LET a == agents[i_agent]
                left == Outcome(i_agent, MOVE_LEFT, draw)
                fwd == Outcome(i_agent, MOVE_FORWARD, draw)
                right == Outcome(i_agent, MOVE_RIGHT, draw)
            IN  /\ left = fwd
                /\ right = fwd
                /\ fwd.agents[i_agent].malfunction = 0 =>
                     /\ fwd.agents[i_agent].transition_action_on_cellexit = MOVE_FORWARD
                     /\ fwd.agents[i_agent].moving \/ fwd.dones[i_agent]
                /\ fwd.agents[i_agent].position # a.position =>
                     \A d \in Exits(a) :
                         /\ fwd.agents[i_agent].direction = d
                         /\ fwd.agents[i_agent].position = get_new_position(a.position, d)

\* C3 witness: an agent that was submitted MOVE_LEFT on a single-exit cell
\* has just moved through that exit
C3_Witness ==
    \E k \in Handles :
        /\ JustProcessed(k)
        /\ action_in = [present |-> TRUE, value |-> MOVE_LEFT]
        /\ agents[k].old_position # agents[k].position
        /\ Cardinality({d \in 0..3 :
              get_transitions(rail, agents[k].old_position, agents[k].old_direction)[d] = 1}) = 1
        /\ agents[k].position = get_new_position(agents[k].old_position, agents[k].direction)
        /\ agents[k].direction # (agents[k].old_direction - 1) % 4

\* C4: on the 7x7 grid with the straight 3-cell track, the first
\* MOVE_FORWARD tick moves the agent one cell and leaves it not done; the
\* second puts it on its target with its done flag and the global done flag
\* set and its reward equal to the global completion bonus
C4_TwoForwardTicks ==
    (scenario = 1 /\ pc = "idle" /\ only_forward) =>
        /\ elapsed_steps = 1 =>
             /\ agents[0].position = <<3, 3>>
             /\ agents[0].direction = 1
             /\ ~ limit_reached(max_episode_steps, 1) => (~ dones[0] /\ ~ dones_all)
        /\ elapsed_steps = 2 =>
             /\ agents[0].position = agents[0].target
             /\ dones[0]
             /\ dones_all
             /\ rewards_dict[0] = Bonus

\* C4 witness: the second MOVE_FORWARD tick has ended on the target
C4_Witness ==
    /\ scenario = 1 /\ pc = "idle" /\ only_forward /\ elapsed_steps = 2
    /\ max_episode_steps = None
    /\ agents[0].position = <<3, 4>>
    /\ agents[0].old_position = <<3, 3>>
    /\ dones[0] /\ dones_all
    /\ rewards_dict[0] = Bonus

\* C5: a tick that ends with every agent on its target has set the global
\* done flag and gives every agent exactly the global completion bonus
C5_CompletionBonus ==
    (EndOfTick /\ EveryoneOnTarget) =>
        /\ dones_all
        /\ \A hd \in Handles : rewards_dict[hd] = Bonus

\* C5 witness: a tick has ended in completion, one agent arriving, although
\* another was charged a step penalty in it (it is on its target, not done)
C5_Witness ==
    /\ EndOfTick /\ max_episode_steps = None
    /\ EveryoneOnTarget /\ dones_all
    /\ \E hd \in Handles : ~ dones[hd] /\ agents[hd].position = agents[hd].old_position
    /\ \E hd \in Handles : dones[hd] /\ agents[hd].position # agents[hd].old_position
    /\ \A hd \in Handles : rewards_dict[hd] = Bonus

\* C6 as stated: when the agent loop has run and the tick does not end in
\* global completion, an agent on its target has reward 0 and every other
\* agent has exactly step_penalty x speed
C6_Original ==
    (LoopDone /\ ~ EveryoneOnTarget) =>
        \A hd \in Handles :
            rewards_dict[hd] = IF agents[hd].position = agents[hd].target
                               THEN 0
                               ELSE step_penalty * agents[hd].speed

\* C7 as stated: every action value outside the five defined actions has
\* the outcome of DO_NOTHING
C7_Original ==
    (pc = "loop" /\ i_agent \in Handles) =>
        \A v \in ActionValues \ RailEnvActions :
            \A draw \in Draws(stochastic, agents[i_agent]) :
                Outcome(i_agent, v, draw) = Outcome(i_agent, DO_NOTHING, draw)

\* C8 as stated: with a tick limit M, while the elapsed-tick count is at
\* most M the global done flag is set only by completion
C8_Original ==
    (pc = "idle" /\ max_episode_steps # None
       /\ elapsed_steps <= max_episode_steps /\ dones_all) => EveryoneOnTarget

\* C8 amended: the tick limit forces global done in the tick in which the
\* elapsed-tick count reaches M (not while it is below M); when forced, the
\* global flag and every per-agent done flag are true and, unless every
\* agent is on its target, the tick's rewards are left as accrued
C8_TickLimit ==
    [][(LoopDone /\ pc' = "idle") =>
         /\ (max_episode_steps # None /\ elapsed_steps >= max_episode_steps) =>
              /\ dones_all'
              /\ \A hd \in Handles : dones'[hd]
              /\ ~ EveryoneOnTarget => rewards_dict' = rewards_dict
         /\ (max_episode_steps = None \/ elapsed_steps < max_episode_steps) =>
              /\ dones_all' = EveryoneOnTarget
              /\ dones' = dones]_vars

\* C8 witness: the tick in which the count reached M has ended with every
\* done flag forced and a step penalty left in the rewards
C8_Witness ==
    /\ pc = "idle" /\ max_episode_steps # None
    /\ elapsed_steps = max_episode_steps
    /\ dones_all /\ \A hd \in Handles : dones[hd]
    /\ ~ EveryoneOnTarget
    /\ \E hd \in Handles : rewards_dict[hd] = step_penalty * agents[hd].speed

\* C9: at a cell entry, when the requested directional action is not
\* grid-valid or not legal, a requested turn is retried as MOVE_FORWARD; if
\* that is invalid too (or MOVE_FORWARD was requested) the agent keeps its
\* position, direction and progress fraction, stops moving, is charged the
\* invalid-action penalty plus the step penalty and is not marked done
C9_InvalidStall ==
    [][\A i \in Handles :
         (IterationOf(i) /\ ~ dones[i]
            /\ agents[i].malfunction = 0
            /\ agents'[i].nr_malfunctions = agents[i].nr_malfunctions
            /\ AtCellEntry(agents[i].position_fraction)
            /\ action_in'.present
            /\ action_in'.value \in {MOVE_LEFT, MOVE_FORWARD, MOVE_RIGHT})
         => LET a == agents[i]
                v == action_in'.value
                req == check_action_on_agent(rail, height, width, agents, v, a)
                fwd == check_action_on_agent(rail, height, width, agents, MOVE_FORWARD, a)
                reqOK == req.new_cell_valid /\ req.transition_valid
                fwdOK == fwd.new_cell_valid /\ fwd.transition_valid
            IN  /\ (~ reqOK /\ v # MOVE_FORWARD /\ fwdOK) =>
                     /\ agents'[i].transition_action_on_cellexit = MOVE_FORWARD
                     /\ agents'[i].moving \/ dones'[i]
                     /\ agents'[i].position_fraction > 0
                          \/ agents'[i].position = fwd.new_position
                /\ (~ reqOK /\ (v = MOVE_FORWARD \/ ~ fwdOK)) =>
                     /\ agents'[i].position = a.position
                     /\ agents'[i].direction = a.direction
                     /\ agents'[i].position_fraction = a.position_fraction
                     /\ ~ agents'[i].moving
                     /\ rewards_dict'[i] = invalid_action_penalty * Den
                                           + step_penalty * a.speed
                     /\ ~ dones'[i]]_vars

\* C9 witness: an agent asked to turn where neither the turn nor
\* MOVE_FORWARD is possible has just stalled with the step penalty
C9_Witness ==
    \E k \in Handles :
        LET fwd == check_action_on_agent(rail, height, width, agents,
                                         MOVE_FORWARD, agents[k])
        IN  /\ JustProcessed(k)
            /\ action_in.present /\ action_in.value \in {MOVE_LEFT, MOVE_RIGHT}
            /\ agents[k].malfunction = 0 /\ agents[k].nr_malfunctions = 0
            /\ ~ (fwd.new_cell_valid /\ fwd.transition_valid)
            /\ agents[k].position = agents[k].old_position
            /\ agents[k].position_fraction = 0
            /\ ~ agents[k].moving /\ ~ dones[k]
            /\ rewards_dict[k] = step_penalty * agents[k].speed

-----------------------------------------------------------------------------
(* C10: the generator's retry loops *)

\* C10 as stated: no loop of complex_rail_generator goes through more than
\* sanity_max failed connections
C10_Original == gen.failed <= sanity_max

-----------------------------------------------------------------------------
(* C18-C20: malfunctions *)

\* C18 as stated: an agent processed with its malfunction countdown at 1
\* has the countdown cleared and does not advance in that tick: its
\* position and progress fraction are unchanged
C18_Original ==
    [][\A i \in Handles :
         (IterationOf(i) /\ ~ dones[i] /\ agents[i].malfunction = 1) =>
            /\ agents'[i].malfunction = 0
            /\ agents'[i].position = agents[i].position
            /\ agents'[i].position_fraction = agents[i].position_fraction]_vars

\* C19: a not-done agent processed with its countdown at 2 or more has the
\* countdown decremented by exactly 1, is stopped, is charged exactly
\* step_penalty x speed and keeps its position, direction, progress
\* fraction and pending transition action, whatever action was submitted
C19_BrokenFrame ==
    (pc = "loop" /\ i_agent \in Handles /\ ~ dones[i_agent]) =>
        \A entry \in ActionEntries :
            \A draw \in Draws(stochastic, agents[i_agent]) :
                LET a == agents[i_agent]
                    a1 == agent_malfunction(a, draw)
                    r == iteration(rail, height, width, agents, dones,
                                   rewards_dict, i_agent, entry, draw)
                    b == r.agents[i_agent]
                IN  a1.malfunction >= 2 =>
                      /\ b.malfunction = a1.malfunction - 1
                      /\ ~ b.moving
                      /\ r.rewards[i_agent] = step_penalty * a.speed
                      /\ b.position = a.position
                      /\ b.direction = a.direction
                      /\ b.position_fraction = a.position_fraction
                      /\ b.transition_action_on_cellexit = a.transition_action_on_cellexit
                      /\ ~ r.dones[i_agent]

\* C19 witness: an agent that had started to move and was submitted
\* MOVE_FORWARD has just spent a tick broken, stopped where it was
C19_Witness ==
    \E k \in Handles :
        /\ JustProcessed(k)
        /\ action_in = [present |-> TRUE, value |-> MOVE_FORWARD]
        /\ agents[k].malfunction >= 1
        /\ agents[k].nr_malfunctions >= 2
        /\ ~ agents[k].moving /\ ~ dones[k]
        /\ agents[k].position = agents[k].old_position
        /\ agents[k].position # agents_static[k].position
        /\ rewards_dict[k] = step_penalty * agents[k].speed

\* this transition is a reset() call
IsReset == num_resets' # num_resets

\* a malfunction of agent i has started in this step
MalfunctionStarted(i) ==
    agents'[i].nr_malfunctions # (IF IsReset THEN 0 ELSE agents[i].nr_malfunctions)

\* the countdown agent i's malfunction of this step was started with: the
\* tick of a not-done agent has already taken 1 off it
StartedWith(i) ==
    agents'[i].malfunction + (IF IsReset \/ dones[i] THEN 0 ELSE 1)

\* C20: a malfunction starts only for an agent with a positive rate that is
\* not broken and whose counter has run down to <= 0; it adds exactly 1 to
\* the malfunction count and sets the countdown to a value in
\* [min_duration + 1, max_duration + 1]; the countdown is never negative;
\* an agent with rate 0 has countdown 0 and malfunction count 0
C20_MalfunctionStart ==
    /\ [](\A hd \in Handles :
            /\ agents[hd].malfunction >= 0
            /\ agents[hd].malfunction_rate = 0 =>
                 (agents[hd].malfunction = 0 /\ agents[hd].nr_malfunctions = 0))
    /\ [][\A i \in Handles :
            MalfunctionStarted(i) =>
                 /\ IsReset \/ IterationOf(i)
                 /\ agents'[i].malfunction_rate > 0
                 /\ ~ IsReset =>
                      /\ agents[i].malfunction_rate > 0
                      /\ agents[i].malfunction <= 0
                      /\ agents[i].next_malfunction - 1 <= 0
                 /\ agents'[i].nr_malfunctions =
                      (IF IsReset THEN 0 ELSE agents[i].nr_malfunctions) + 1
                 /\ StartedWith(i) >= stochastic.min_duration + 1
                 /\ StartedWith(i) <= stochastic.max_duration + 1]_vars

\* C20 witness: an agent's second malfunction has started during a step()
\* call, with the longest duration
C20_Witness ==
    \E k \in Handles :
        /\ JustProcessed(k)
        /\ agents[k].nr_malfunctions = 2
        /\ agents[k].malfunction = stochastic.max_duration
        /\ agents[k].malfunction_rate > 0

-----------------------------------------------------------------------------
(* C17: Manhattan distance *)

\* C17 as stated: get_manhattan_distance(a, b) is |a0-b0| + |a1-b1|, the
\* value of distance_on_rail(a, b), and get_manhattan_norm(v) is |v0| + |v1|
C17_Original ==
    gen.pc = "vec_manhattan" =>
        /\ gen.distance = abs(gen.node_a[1] - gen.node_b[1])
                          + abs(gen.node_a[2] - gen.node_b[2])
        /\ gen.distance = distance_on_rail(gen.node_a, gen.node_b)
        /\ gen.norm = abs(gen.node_b[1]) + abs(gen.node_b[2])

-----------------------------------------------------------------------------
(* C11: pair placement under an unsatisfiable minimum distance *)

\* no two cells of the grid are min_dist apart
Infeasible(g) ==
    \A s \in (0..g.height - 1) \X (0..g.width - 1) :
        \A t \in (0..g.height - 1) \X (0..g.width - 1) :
            distance_on_rail(s, t) < g.min_dist

\* C11 as stated: when no pair can satisfy the minimum distance, pair
\* placement ends without raising and without a single connection attempt,
\* and the generator returns fewer than nr_start_goal pairs
C11_Original ==
    Infeasible(gen) =>
        /\ gen.pc # "raised"
        /\ gen.failed = 0 /\ gen.created_sanity = 0
        /\ gen.start_goal < gen.nr_start_goal

-----------------------------------------------------------------------------
(* C14, C15: the template-fill generator *)

\* C14 as stated: when every one of the MAX_ATTEMPTS_FROM_SCRATCH attempts
\* has used up its insertion budget, the generator does not return a grid
C14_Original ==
    gen.pc = "fill_returned" => gen.attempt_number < MAX_ATTEMPTS_FROM_SCRATCH

\* side k of the cell p of the returned grid carries track
HasExit(p, k) == max_bit(gen.rail[p], k) = 1

\* C15: in the grid returned after an attempt that filled every interior
\* cell, every side of a cell that carries track leads to a cell of the
\* grid that is not empty and carries track back toward it
C15_NeighbourConsistent ==
    (gen.pc = "fill_returned" /\ gen.cells_to_fill = <<>>
       /\ gen.attempt_number < MAX_ATTEMPTS_FROM_SCRATCH) =>
        \A p \in DOMAIN gen.rail : \A k \in 1..4 :
            HasExit(p, k) =>
                /\ neighbour(p, k) \in DOMAIN gen.rail
                /\ gen.rail[neighbour(p, k)] # 0
                /\ HasExit(neighbour(p, k), ((k + 1) % 4) + 1)

\* C15 witness: a grid has been returned in which one interior cell runs
\* into a border dead end and into another interior cell
C15_Witness ==
    /\ gen.pc = "fill_returned" /\ gen.cells_to_fill = <<>>
    /\ gen.attempt_number = 0
    /\ \E p \in interior(gen) :
         /\ HasExit(p, 1) /\ gen.rail[neighbour(p, 1)] = dead_end
         /\ HasExit(p, 2) /\ neighbour(p, 2) \in interior(gen)
         /\ HasExit(neighbour(p, 2), 4)

-----------------------------------------------------------------------------
(* C13, C16: the sparse generator *)

\* C13 as stated: whatever number of cities has been placed, one or none
\* included, the sparse generator does not fail
C13_Original == gen.pc # "raised"

\* the pairs of the hints that start (k = 1) or end (k = 2) in city c
PairsAt(c, k) ==
    {n \in DOMAIN gen.agent_start_targets_nodes : gen.agent_start_targets_nodes[n][k] = c}

\* C16: pair assignment never raises, and the hints returned have
\* num_agents <= the requested count and <= the number of stations,
\* num_agents = the number of pairs, start city # target city in every
\* pair, and per city no more starts and no more targets than stations
C16_HintsBounded ==
    /\ gen.pc # "raised"
    /\ gen.pc = "sparse_returned" =>
         /\ gen.num_agents <= gen.requested
         /\ gen.num_agents <= sum(gen.train_stations)
         /\ gen.num_agents = Len(gen.agent_start_targets_nodes)
         /\ \A n \in DOMAIN gen.agent_start_targets_nodes :
              gen.agent_start_targets_nodes[n][1] # gen.agent_start_targets_nodes[n][2]
         /\ \A c \in DOMAIN gen.train_stations :
              /\ Cardinality(PairsAt(c, 1)) <= gen.train_stations[c]
              /\ Cardinality(PairsAt(c, 2)) <= gen.train_stations[c]

\* C16 witness: hints have been returned for a call that asked for more
\* agents than there are stations, one city's stations all used as starts
\* and one agent removed for want of a target in another city
C16_Witness ==
    /\ gen.pc = "sparse_returned"
    /\ gen.requested > sum(gen.train_stations)
    /\ gen.num_agents >= 1
    /\ gen.num_agents < sum(gen.train_stations)
    /\ \E c \in DOMAIN gen.train_stations :
         gen.train_stations[c] >= 1 /\ Cardinality(PairsAt(c, 1)) = gen.train_stations[c]

-----------------------------------------------------------------------------
(* C12: determinism of the generators *)

\* C12 as stated: for every generator, two calls with the same seed,
\* num_resets, width, height and agent count draw from the same random
\* stream, and so return the same grid and hints, whatever was drawn
\* before either call
C12_Original ==
    Len(gen.calls) = 2 => gen.calls[1] = gen.calls[2]

-----------------------------------------------------------------------------
(* C21-C28: actions, progress and commits *)

\* C21: STOP_MOVING submitted to a moving, not-broken agent stops it only
\* at a cell entry, and then its position, direction and progress fraction
\* are unchanged in that tick; submitted while the fraction is > 0 it is
\* ignored (the tick has the outcome of DO_NOTHING): the agent stays moving
\* unless it arrives on its target, and its fraction is advanced by its
\* speed, after which it either holds that value or the cell transition
\* is committed
C21_StopAtCellEntry ==
    (pc = "loop" /\ i_agent \in Handles /\ ~ dones[i_agent]) =>
        \A draw \in Draws(stochastic, agents[i_agent]) :
            LET a == agents[i_agent]
                r == Outcome(i_agent, STOP_MOVING, draw)
                b == r.agents[i_agent]
            IN  (agent_malfunction(a, draw).malfunction = 0 /\ a.moving) =>
                  /\ AtCellEntry(a.position_fraction) =>
                       /\ ~ b.moving
                       /\ b.position = a.position
                       /\ b.direction = a.direction
                       /\ b.position_fraction = a.position_fraction
                  /\ ~ b.moving => (AtCellEntry(a.position_fraction) \/ r.dones[i_agent])
                  /\ a.position_fraction > 0 =>
                       /\ r = Outcome(i_agent, DO_NOTHING, draw)
                       /\ b.moving \/ r.dones[i_agent]
                       /\ b.position = a.position =>
                            b.position_fraction = a.position_fraction + a.speed
                       /\ b.position # a.position =>
                            /\ a.position_fraction + a.speed >= Den
                            /\ b.position_fraction = 0

\* C21 witness: an agent that was submitted STOP_MOVING in the middle of a
\* cell has just gone on moving, its fraction advanced again
C21_Witness ==
    \E k \in Handles :
        /\ JustProcessed(k)
        /\ action_in = [present |-> TRUE, value |-> STOP_MOVING]
        /\ agents[k].nr_malfunctions = 0
        /\ agents[k].moving /\ ~ dones[k]
        /\ agents[k].position = agents[k].old_position
        /\ agents[k].position_fraction >= 2 * agents[k].speed

\* agent i has not been broken in this iteration
NotBroken(i) ==
    /\ agents[i].malfunction = 0
    /\ agents'[i].malfunction = 0
    /\ agents'[i].nr_malfunctions = agents[i].nr_malfunctions

\* what _check_action_on_agent gives for the transition action agent i
\* holds after this iteration, from the cell it was processed in
Pending(i) ==
    check_action_on_agent(rail, height, width, agents,
                          agents'[i].transition_action_on_cellexit, agents[i])

\* in this iteration agent i, with its fraction at 1.0 or more, was up for
\* its cell transition
AtCommit(i) ==
    \/ agents'[i].position_fraction >= Den
    \/ agents'[i].position # agents[i].position

\* agent i, moving in the middle of its cell, has its fraction brought to
\* 1.0 or more by this iteration's advance
ReachesFull(i) ==
    /\ agents[i].moving
    /\ agents[i].position_fraction > 0
    /\ agents[i].position_fraction + agents[i].speed >= Den

\* C22: a moving, not-broken agent whose fraction has reached 1.0 keeps its
\* position and direction, and its fraction (not reset), when its
\* destination is occupied at the moment it is processed; it is up for the
\* transition again in every following tick, and moves (fraction reset to
\* 0) in the first tick in which the destination is unoccupied when it is
\* processed
C22_BlockedCommit ==
    [][\A i \in Handles :
         (/\ IterationOf(i) /\ ~ dones[i] /\ NotBroken(i)
          /\ ReachesFull(i) \/ ((agents'[i].moving \/ dones'[i]) /\ AtCommit(i))) =>
                 /\ Pending(i).new_cell_valid /\ Pending(i).transition_valid
                 /\ ~ Pending(i).cell_free =>
                      /\ agents'[i].position = agents[i].position
                      /\ agents'[i].direction = agents[i].direction
                      /\ agents'[i].position_fraction >= Den
                      /\ agents'[i].position_fraction
                           = agents[i].position_fraction + agents[i].speed
                      /\ agents'[i].moving
                 /\ Pending(i).cell_free =>
                      /\ agents'[i].position = Pending(i).new_position
                      /\ agents'[i].direction = Pending(i).new_direction
                      /\ agents'[i].position_fraction = 0]_vars

\* C22 witness: an agent held in front of an occupied cell has just been
\* refused that cell for the second tick running, its fraction beyond 1.0
C22_Witness ==
    \E k \in Handles : \E j \in Handles :
        /\ JustProcessed(k) /\ j # k
        /\ agents[k].moving /\ agents[k].malfunction = 0
        /\ agents[k].position = agents[k].old_position
        /\ agents[k].position_fraction >= Den + agents[k].speed
        /\ PendingInto(agents, agents[k], agents[j].position)

\* C23: every tick in which a moving, not-broken agent with its fraction
\* at 1.0 or more stays where it is adds its speed to the fraction, so the
\* fraction goes beyond 1.0 and is not kept below 1 + speed
C23_UnclampedProgress ==
    [][\A i \in Handles :
         (/\ IterationOf(i) /\ ~ dones[i] /\ NotBroken(i)
          /\ agents[i].moving
          /\ agents[i].position_fraction >= Den
          /\ agents'[i].position = agents[i].position) =>
            /\ agents'[i].position_fraction = agents[i].position_fraction + agents[i].speed
            /\ agents'[i].position_fraction > Den]_vars

\* C23 witness: a tick has ended with a moving agent's fraction at
\* 1 + speed or more
C23_Witness ==
    /\ EndOfTick
    /\ \E hd \in Handles :
         /\ agents[hd].moving /\ ~ dones[hd]
         /\ agents[hd].nr_malfunctions = 0
         /\ agents[hd].position_fraction >= Den + agents[hd].speed

\* C24 as stated: an agent of speed 1/k that is never blocked or broken
\* performs its cell transition on the k-th tick counted from the tick its
\* action was resolved in, not before and not after
C24_Original ==
    /\ gen.pc = "resolved" => gen.ticks < gen.k
    /\ gen.pc = "committed" => gen.ticks = gen.k

\* C25: every agent is on a non-empty cell of the grid at all times, and a
\* position changes only in the agent's own loop iteration (or by a
\* reset), to the 4-neighbour cell in the agent's new direction, along a
\* transition the rail declares legal from its previous position and
\* direction, into a cell no agent stood on at that moment
C25_LegalMoves ==
    /\ [](\A hd \in Handles :
            InGrid(agents[hd].position) /\ rail[agents[hd].position] > 0)
    /\ [][\A i \in Handles :
            (~ IsReset /\ agents'[i].position # agents[i].position) =>
                /\ IterationOf(i)
                /\ agents'[i].position
                     = get_new_position(agents[i].position, agents'[i].direction)
                /\ get_transition(rail, agents[i].position, agents[i].direction,
                                  agents'[i].direction)
                /\ \A k \in Handles : agents[k].position # agents'[i].position]_vars

\* C25 witness: an agent has just turned at the switch into the branch,
\* while another agent stands at the end of the line, at the grid's edge
C25_Witness ==
    \E k \in Handles : \E j \in Handles :
        /\ JustProcessed(k) /\ j # k
        /\ agents[k].position # agents[k].old_position
        /\ agents[k].direction # agents[k].old_direction
        /\ agents[j].position[2] = width - 1

\* C26: outside reset(), a done flag that is set stays set, and no step of
\* a step() call changes the position, direction, progress fraction or
\* moving flag of an agent whose done flag is set, whatever is submitted
C26_DoneFrozen ==
    [][\A i \in Handles :
         (dones[i] /\ ~ IsReset) =>
            /\ dones'[i]
            /\ agents'[i].position = agents[i].position
            /\ agents'[i].direction = agents[i].direction
            /\ agents'[i].position_fraction = agents[i].position_fraction
            /\ agents'[i].moving = agents[i].moving]_vars

\* C26 witness: an agent that arrived in an earlier tick has just been
\* passed over although MOVE_FORWARD was submitted for it, while another
\* agent is still under way
C26_Witness ==
    \E k \in Handles :
        /\ JustProcessed(k)
        /\ action_in = [present |-> TRUE, value |-> MOVE_FORWARD]
        /\ dones[k] /\ ~ dones_all
        /\ agents[k].position = agents[k].old_position
        /\ agents[k].position # agents_static[k].position
        /\ ~ agents[k].moving
        /\ \E j \in Handles : ~ dones[j]

\* C27 as stated: at the end of every step() call, an agent's reward equals
\* the global-completion bonus only if every agent's position equals its
\* target, also in calls made after global done was set
C27_Original ==
    (EndOfTick /\ \E hd \in Handles : rewards_dict[hd] = Bonus) => EveryoneOnTarget

\* the transition of action v is grid-valid and legal for agent a
ValidFor(a, v) ==
    LET r == check_action_on_agent(rail, height, width, agents, v, a)
    IN  r.new_cell_valid /\ r.transition_valid

\* C28: outside reset(), the pending transition action of an agent changes
\* only in its own loop iteration, when it is at a cell entry, and to an
\* action whose transition is valid there; while its progress fraction
\* is > 0 the pending action stays as it is and a move, if any, is the one
\* of the pending action, whatever is submitted
C28_PendingFixed ==
    [][\A i \in Handles :
         ~ IsReset =>
            /\ (agents'[i].transition_action_on_cellexit
                    # agents[i].transition_action_on_cellexit) =>
                    /\ IterationOf(i)
                    /\ AtCellEntry(agents[i].position_fraction)
                    /\ ValidFor(agents[i], agents'[i].transition_action_on_cellexit)
            /\ agents[i].position_fraction > 0 =>
                    /\ agents'[i].transition_action_on_cellexit
                          = agents[i].transition_action_on_cellexit
                    /\ (agents'[i].position # agents[i].position) =>
                          LET r == check_action_on_agent(rail, height, width, agents,
                                       agents[i].transition_action_on_cellexit, agents[i])
                          IN  /\ agents'[i].position = r.new_position
                              /\ agents'[i].direction = r.new_direction]_vars

\* C28 witness: a half-speed agent has just left a cell straight on, as
\* selected at its entry, although a turn that is valid in that cell was
\* submitted in the tick of the commit
C28_Witness ==
    \E k \in Handles :
        /\ JustProcessed(k)
        /\ agents[k].speed < Den
        /\ agents[k].position # agents[k].old_position
        /\ agents[k].direction = agents[k].old_direction
        /\ agents[k].transition_action_on_cellexit = MOVE_FORWARD
        /\ action_in.present /\ action_in.value \in {MOVE_LEFT, MOVE_RIGHT}
        /\ ValidFor([agents[k] EXCEPT !.position = agents[k].old_position,
                                      !.direction = agents[k].old_direction],
                    action_in.value)

C30_AcceptedPairs ==
    /\ [](/\ Len(gen.start_goal) = Len(gen.start_dir)
          /\ Len(gen.start_goal) <= gen.nr_start_goal
          /\ \A n \in DOMAIN gen.start_goal :
               LET sg == gen.start_goal[n]
               IN  /\ distance_on_rail(sg[1], sg[2]) >= gen.min_dist
                   /\ distance_on_rail(sg[1], sg[2]) <= gen.max_dist
                   /\ \A m \in 1..(n - 1) : \A i \in 1..2 : \A j \in 1..2 :
                        distance_on_rail(sg[i], gen.start_goal[m][j]) >= 2)
    /\ [][Len(gen'.start_goal) > Len(gen.start_goal) =>
            /\ Len(gen'.start_goal) = Len(gen.start_goal) + 1
            /\ \A i \in 1..2 :
                 gen'.start_goal[Len(gen'.start_goal)][i] \notin gen.rail]_vars

\* C30 witness: the generator has left the first loop with two pairs under
\* the narrow distance range, the second one having an endpoint exactly 2
\* from an endpoint of the first
C30_Witness ==
    /\ gen.pc = "extra" /\ gen.max_dist = 3
    /\ Len(gen.start_goal) = 2 /\ Len(gen.start_dir) = 2
    /\ \E i \in 1..2 : \E j \in 1..2 :
         distance_on_rail(gen.start_goal[2][i], gen.start_goal[1][j]) = 2

(* C31-C34: the sparse generator's cities *)

\* what is left of the random placement: cities to go, then tries to go
PlacementLeft(g) ==
    (g.nb_nodes - g.node_idx) * 203 + (IF g.pc = "try" THEN 201 - g.tries ELSE 202)

\* C31: in random placement no more than 201 positions are tried for a
\* city, every step of the placement loop brings its end nearer, no more
\* than nb_nodes centres are placed, and every two placed centres differ
\* by at least 2 * (node_radius + 1) + 1 in the row or in the column
C31_RandomPlacement ==
    /\ [](/\ gen.tries <= 201
          /\ (gen.pc = "try" => gen.tries <= 200)
          /\ Len(gen.node_positions) <= gen.nb_nodes
          /\ PlacementLeft(gen) >= 0
          /\ \A m, n \in DOMAIN gen.node_positions :
               m # n =>
                 \/ abs(gen.node_positions[m][1] - gen.node_positions[n][1])
                        >= 2 * (node_radius + 1) + 1
                 \/ abs(gen.node_positions[m][2] - gen.node_positions[n][2])
                        >= 2 * (node_radius + 1) + 1)
    /\ [][(gen.pc \in {"place", "try"} /\ gen'.pc \in {"place", "try"}) =>
            PlacementLeft(gen') < PlacementLeft(gen)]_vars

\* C31 witness: the second city was given up after 201 tries that all
\* overlapped the first, and the placement has ended with one centre
C31_Witness ==
    /\ gen.pc = "place" /\ gen.nb_nodes = 2 /\ gen.node_idx = 2
    /\ gen.tries = 201 /\ Len(gen.node_positions) = 1

\* C32 as stated: a city has connection points on exactly two opposite
\* sides, the same number on both, between 2 and max_tracks_in_city, and
\* on each of these sides between 1 and min(max_inter_city_rails,
\* max_tracks_in_city) of them are outward rails
C32_Original ==
    gen.pc = "laid" =>
        LET sides == {d \in 0..3 : gen.inner[d] # << >>}
            most == IF gen.max_inter_city_rails < max_tracks_in_city
                    THEN gen.max_inter_city_rails ELSE max_tracks_in_city
        IN  /\ \E d \in 0..3 : sides = {d, (d + 2) % 4}
            /\ \A d \in sides :
                 /\ Len(gen.inner[d]) = gen.nr_of_connection_points
                 /\ Len(gen.inner[d]) >= 2
                 /\ Len(gen.inner[d]) <= max_tracks_in_city
                 /\ gen.outer[d] \subseteq {gen.inner[d][k] : k \in DOMAIN gen.inner[d]}
                 /\ Cardinality(gen.outer[d]) >= 1
                 /\ Cardinality(gen.outer[d]) <= most

\* C33 as stated: every track of the city whose source and target are both
\* outward connection points is among the through-path cells, and none of
\* its cells is a candidate station
C33_Original ==
    gen.pc = "stations" =>
        \A id \in DOMAIN gen.tracks :
            gen.tracks[id].outward =>
                /\ gen.tracks[id].cells \subseteq gen.through_path_cells
                /\ gen.tracks[id].cells \cap gen.train_stations = {}

\* C34 as stated: in the repair pass no repair of a non-empty cell comes
\* before the repair of an empty cell
C34_Original ==
    \A i, j \in DOMAIN gen.fixed :
        (i < j /\ gen.fixed[j].code = EmptyCell) => gen.fixed[i].code = EmptyCell

(* C35-C37: the template-fill generator's attempts, worklist and border *)

\* C35 as stated: an attempt makes no more than MAX_INSERTIONS insertions and
\* there are no more than MAX_ATTEMPTS_FROM_SCRATCH attempts; an attempt
\* that leaves the fill loop with an empty worklist ends the retries, and
\* an attempt is counted as failed only when it used up the budget with
\* cells left to fill
C35_Original ==
    /\ [](/\ gen.num_insertions <= MAX_INSERTIONS(gen)
          /\ gen.attempt_number <= MAX_ATTEMPTS_FROM_SCRATCH)
    /\ [][(gen.pc = "fill" /\ gen'.num_insertions <= gen.num_insertions) =>
            /\ gen.cells_to_fill = <<>> =>
                 (gen'.pc = "fill_pad" /\ gen'.attempt_number = gen.attempt_number)
            /\ gen'.attempt_number # gen.attempt_number =>
                 (gen.cells_to_fill # <<>> /\ gen.num_insertions = MAX_INSERTIONS(gen))]_vars

\* C36: in the grid returned for a grid with an interior, a border cell
\* beside an interior cell is a dead end opening toward that cell if the
\* interior cell carries track toward it, and is empty if not; the corner
\* cells are empty
C36_BorderPadding ==
    (gen.pc = "fill_returned" /\ interior(gen) # {}) =>
        \A p \in DOMAIN gen.rail \ interior(gen) :
            LET inward == {k \in 1..4 : neighbour(p, k) \in interior(gen)}
            IN  /\ inward = {} => gen.rail[p] = 0
                /\ \A k \in inward :
                     IF HasExit(neighbour(p, k), ((k + 1) % 4) + 1)
                     THEN /\ nbits(gen.rail[p]) = 1
                          /\ HasExit(p, k)
                     ELSE gen.rail[p] = 0

\* C36 witness: a grid has been returned in which one border cell beside
\* the interior is a dead end and another one is empty
C36_Witness ==
    /\ gen.pc = "fill_returned" /\ gen.attempt_number = 0
    /\ \E p, q \in DOMAIN gen.rail \ interior(gen) :
         /\ \E k \in 1..4 : neighbour(p, k) \in interior(gen) /\ HasExit(p, k)
         /\ \E k \in 1..4 : neighbour(q, k) \in interior(gen)
         /\ gen.rail[q] = 0


\* one pass of the fill loop: the attempt goes on and something changed
FillIteration ==
    /\ gen.pc = "fill" /\ gen'.pc = "fill"
    /\ gen'.attempt_number = gen.attempt_number
    /\ gen' # gen

\* the interior cells no code has been written to yet
Unfilled(g) == {p \in interior(g) : g.rail[p] = None}

\* C37: during a template-fill attempt the worklist holds exactly the
\* unfilled interior cells, each once; every pass of the loop fills the cell
\* it selected and counts one insertion, and a cell that is put back on the
\* worklist was a filled interior cell that the worklist did not hold
C37_Worklist ==
    /\ [](gen.pc = "fill" =>
            /\ cells_of(gen.cells_to_fill) = Unfilled(gen)
            /\ Len(gen.cells_to_fill) = Cardinality(Unfilled(gen)))
    /\ [][FillIteration =>
            /\ gen'.num_insertions = gen.num_insertions + 1
            /\ \E cell \in cells_of(gen.cells_to_fill) :
                 /\ gen'.rail[cell] # None
                 /\ cell \notin cells_of(gen'.cells_to_fill)
            /\ \A q \in cells_of(gen'.cells_to_fill) \ cells_of(gen.cells_to_fill) :
                 /\ q \in interior(gen)
                 /\ gen.rail[q] # None]_vars

\* an attempt under way on a grid with several interior cells: one cell is
\* filled and off the worklist, another waits on it
C37_Witness ==
    /\ gen.pc = "fill"
    /\ gen.num_insertions = 1
    /\ gen.cells_to_fill # <<>>
    /\ \E p \in interior(gen) : gen.rail[p] \notin {None, 0}

-----------------------------------------------------------------------------
(* C38-C39: agents facing each other, and the done flags at the return *)

\* agent i has crossed its cell and its stored action leads, over a legal
\* transition, into the cell agent j stands in
ReadyInto(i, j) ==
    /\ agents[i].position_fraction >= Den
    /\ LET r == check_action_on_agent(rail, height, width, agents,
                                      agents[i].transition_action_on_cellexit, agents[i])
       IN  /\ r.new_position = agents[j].position
           /\ r.new_cell_valid
           /\ r.transition_valid

FacingEachOther(i, j) == i # j /\ ReadyInto(i, j) /\ ReadyInto(j, i)

\* agents i and j have swapped their cells in the tick that has just returned
Exchanged(i, j) ==
    /\ i # j
    /\ agents[i].old_position = agents[j].position
    /\ agents[j].old_position = agents[i].position
    /\ agents[i].old_position # agents[i].position

\* C38: no tick ends with two agents having exchanged their cells, and as
\* long as two agents in adjacent cells are each ready to commit into the
\* other's cell no step of a tick moves either of them
C38_NoExchange ==
    /\ [](EndOfTick => \A i, j \in Handles : ~ Exchanged(i, j))
    /\ [][~ IsReset =>
            \A i, j \in Handles :
                FacingEachOther(i, j) =>
                    /\ agents'[i].position = agents[i].position
                    /\ agents'[j].position = agents[j].position]_vars

\* two agents facing each other have both been through one more tick in
\* that situation: each has added its speed to a fraction already at 1.0
C38_Witness ==
    /\ EndOfTick
    /\ \E i, j \in Handles :
         /\ FacingEachOther(i, j)
         /\ agents[i].position_fraction >= Den + agents[i].speed
         /\ agents[j].position_fraction >= Den + agents[j].speed
         /\ agents[i].moving /\ agents[j].moving

\* C39: when a step() call returns with the global done flag set, every
\* agent's done flag is set
C39_Original ==
    (EndOfTick /\ dones_all) => \A hd \in Handles : dones[hd]

-----------------------------------------------------------------------------
(* C40: the endpoints drawn by the legacy complex_rail_generator *)

\* C40 as stated: once the legacy generator has searched for a pair, every
\* start and every goal it could draw is an index of the height x width
\* rail array, and indexing the array with them has not raised
C40_Original ==
    (gen.legacy /\ gen.pc # "start_goal") =>
        /\ \A start \in StartDraws(gen) : InArray(gen, start)
        /\ \A goal \in GoalDraws(gen) : InArray(gen, goal)
        /\ gen.pc # "raised"
====
